---- MODULE Spec2Model ----
(***************************************************************************)
(* State-machine model of the HELIOS safety layer                          *)
(* (src/api/app/safety_layer.py) and of the request handlers and the       *)
(* periodic task that drive it (src/api/app/routers/safety.py,             *)
(* src/api/main.py).                                                       *)
(*                                                                         *)
(* Units.  Pressure is in kPa.  Radiation is in hundredths of a mSv/hr,    *)
(* so that the thresholds 0.1 and 0.5 are the integers 10 and 50.  Time    *)
(* is in whole minutes; two calls with no Tick between them read the same  *)
(* clock value.  Quotients the code computes in floating point (the        *)
(* pressure rate, the radiation baseline) are kept as exact fractions      *)
(* [num, den] with den > 0 and compared by cross-multiplication.           *)
(* Optional[...] values are <<>> for None and <<x>> for a value x.         *)
(* A radiation reading is kept without its timestamp, which the code       *)
(* stores and never reads.  uuid4() values are the numbers 1, 2, 3, ...    *)
(***************************************************************************)
EXTENDS Integers, Sequences, FiniteSets, TLC

VARIABLES
    now,                \* the clock read by datetime.utcnow()
    uuid_counter,       \* number of uuid4() values drawn so far
    pressure_history,   \* SafetyLayer.pressure_history.readings
    radiation_history,  \* SafetyLayer.radiation_history: [baseline, readings]
    active_alerts,      \* SafetyLayer.active_alerts: hazard type -> Alert
    pending_approvals,  \* SafetyLayer.pending_approvals: rec id -> record
    ret_alerts,         \* alerts returned by the latest check_safety call
    ret_recommendations,\* recommendations returned by that call
    calls,              \* number of check_safety calls made
    emitted_alerts,     \* hazard types of all alerts emitted, in order
    emitted_recs,       \* ids of all recommendations emitted, in order
    in_flight,          \* approval requests received, handler not yet run
    approve_runs,       \* number of approval handler runs
    approve_response,   \* outcome of the latest approval handler run
    approve_tally,      \* per id: the runs that reached approve_action
    pressure_stats,     \* AnomalyDetector.pressure_stats
    radiation_stats,    \* AnomalyDetector.radiation_stats
    battery_stats,      \* AnomalyDetector.battery_stats
    history,            \* AnomalyDetector.history: metric -> samples
    ret_anomalies,      \* alerts returned by the latest detect_anomalies
    detect_calls,       \* number of detect_anomalies calls made
    fed,                \* per metric: the samples since construction/reset
    telemetry,          \* the signal fed so far: last snapshot, changes
    reset_runs,         \* number of reset handler runs
    reset_response,     \* outcome of the latest reset handler run
    direct_calls,       \* outcomes of the direct calls of the detector
    settlement,         \* the SettlementState built from the telemetry
    ret_ranked,         \* list the latest generate_recommendations gave
    decision_calls,     \* number of generate_recommendations calls made
    decisions_response, \* outcome of the latest recommendations request
    priority_calls,     \* the direct calls of calculate_priority, results
    alerts_db,          \* routers.alerts.alerts_db, the alert store
    recommendations_db, \* routers.recommendations.recommendations_db
    audit_log,          \* the entries of the audit log file, in order
    audit_log_db,       \* routers.audit_log.audit_log_db
    safety_task,        \* the periodic_safety_check task: running or ended
    anomaly_task,       \* the periodic_anomaly_detection task, likewise
    cycle_errors,       \* per task: the errors its except clause printed
    loop_running,       \* the coroutine the event loop is running, if any
    coroutines,         \* the live coroutines: where each one stands
    evaluating,         \* per component: the coroutines inside its evaluation
    simulator,          \* SensorSimulator.current_state, the parts scenarios touch
    scenario_engine,    \* the ScenarioEngine object
    scenario_tasks,     \* the tasks the engine created, in order of creation
    scenario_response   \* outcome of the latest scenario request

vars == <<now, uuid_counter, pressure_history, radiation_history,
          active_alerts, pending_approvals, ret_alerts, ret_recommendations,
          calls, emitted_alerts, emitted_recs, in_flight, approve_runs,
          approve_response, approve_tally, pressure_stats,
          radiation_stats, battery_stats, history, ret_anomalies,
          detect_calls, fed, telemetry, reset_runs, reset_response,
          direct_calls, settlement, ret_ranked, decision_calls,
          decisions_response, priority_calls, alerts_db,
          recommendations_db, audit_log, audit_log_db, safety_task,
          anomaly_task, cycle_errors, loop_running, coroutines, evaluating,
          simulator, scenario_engine, scenario_tasks, scenario_response>>

layerVars == <<pressure_history, radiation_history, active_alerts,
               pending_approvals>>
checkVars == <<uuid_counter, ret_alerts, ret_recommendations, calls,
               emitted_alerts, emitted_recs>>
approveVars == <<in_flight, approve_runs, approve_response, approve_tally>>
detectorVars == <<pressure_stats, radiation_stats, battery_stats, history>>
anomalyVars == <<detectorVars, ret_anomalies, detect_calls, fed, telemetry,
                 reset_runs, reset_response>>
decisionVars == <<settlement, ret_ranked, decision_calls,
                  decisions_response, priority_calls>>
storeVars == <<alerts_db, recommendations_db>>
auditVars == <<audit_log, audit_log_db>>
taskVars == <<safety_task, anomaly_task, cycle_errors>>
loopVars == <<loop_running, coroutines, evaluating>>
scenarioVars == <<simulator, scenario_engine, scenario_tasks,
                  scenario_response>>
appVars == <<direct_calls, decisionVars, storeVars, auditVars, taskVars,
             loopVars, scenarioVars>>

----------------------------------------------------------------------------
(* Bounds of the model *)

MaxRadiationCalls == 6   \* check_safety calls, radiation specification
MaxPressureCalls == 4    \* check_safety calls, pressure specification
MaxPressureTime == 7     \* minutes of clock, pressure specification
MaxHazardCalls == 5      \* check_safety calls, all-hazards specification
MaxHazardTime == 1       \* minutes of clock, all-hazards specification
MaxApprovalCycles == 1   \* check_safety calls, approval specification
MaxApprovalTime == 1     \* minutes of clock, approval specification
MaxApproveCalls == 3     \* approval requests, approval specification
MaxAnomalySamples == 16  \* detect_anomalies calls, anomaly specification
MaxAnomalyChanges == 2   \* changes of the signal's level, anomaly spec.
MaxResetSamples == 11    \* detect_anomalies calls, reset specification
MaxResetChanges == 1     \* changes of the signal's level, reset spec.
MaxResets == 1           \* reset requests, reset specification
MaxHistorySamples == 102 \* detect_anomalies calls, history specification
MaxSettling == 2         \* samples before the signal settles, history spec.
MaxHistoryCalls == 13    \* check_safety calls, history specification
MaxHistoryTime == 6      \* minutes of clock, history specification
MaxChecksPerMinute == 2  \* check_safety calls in a minute, history spec.
MaxLookupSamples == 2    \* detect_anomalies calls, metric name spec.
MaxLookupCalls == 1      \* direct calls of the detector, metric name spec.
MaxLookupResets == 1     \* reset handler runs, metric name specification
MaxOffScenario == 1      \* quantities moved off a scenario, decision spec.
MaxDecisionCalls == 1    \* recommendations requests, decision spec.
MaxPriorityCalls == 1    \* direct calls of calculate_priority, priority spec.
MaxCycleChecks == 2      \* check_safety calls, cycles specification
MaxCycleSamples == 1     \* detect_anomalies calls after the warm-up, cycles
MaxCycleFaults == 1      \* cycles in which a statement raises, cycles spec.
MaxAuditEntries == 1     \* POST /audit-log requests logged, cycles spec.
MaxLoopRequests == 2     \* handler coroutines created, event loop spec.
MaxLoopChecks == 2       \* check_safety calls, event loop specification
MaxLoopSamples == 2      \* detect_anomalies calls, event loop spec.
MaxConsumerCalls == 2    \* calls of each consumer, consumers specification
MaxClearingCalls == 6    \* check_safety calls, clearing specification
MaxClearingApprovals == 1 \* approval requests, clearing specification
MaxClearingTime == 1     \* minutes of clock, clearing specification
MaxScenarioStarts == 3   \* start requests, scenario specification
MaxScenarioStops == 1    \* stops of an active scenario, scenario spec.
MaxIdleStops == 1        \* stops with no active scenario, scenario spec.
MaxScenarioTime == 2     \* minutes of clock, scenario specification

----------------------------------------------------------------------------
(* Program constants *)

PRESSURE_LEAK_THRESHOLD == 2
RADIATION_SPIKE_THRESHOLD == 10
RADIATION_CRITICAL_THRESHOLD == 50
PRESSURE_CRITICAL_THRESHOLD == 90

ALERT_PRESSURE_LEAK == "PRESSURE_LEAK"
ALERT_RADIATION_SPIKE == "RADIATION_SPIKE"
ALERT_RADIATION_CRITICAL == "RADIATION_CRITICAL"
ALERT_PRESSURE_CRITICAL == "PRESSURE_CRITICAL"

AlertTypes == {ALERT_PRESSURE_LEAK, ALERT_RADIATION_SPIKE,
               ALERT_RADIATION_CRITICAL, ALERT_PRESSURE_CRITICAL}

max_history_minutes == 5
max_readings == 10

----------------------------------------------------------------------------
(* Helpers *)

None == <<>>
EmptyDict == [x \in {} |-> x]
Some(x) == <<x>>
IsNone(o) == o = <<>>
Get(o) == o[1]

RECURSIVE SumSeq(_)
SumSeq(s) ==
    IF Len(s) = 0 THEN 0
    ELSE IF Len(s) = 1 THEN s[1]
    ELSE SumSeq(SubSeq(s, 1, Len(s) \div 2)) +
         SumSeq(SubSeq(s, Len(s) \div 2 + 1, Len(s)))

\* s[-n:] of Python
LastN(s, n) == IF Len(s) <= n THEN s ELSE SubSeq(s, Len(s) - n + 1, Len(s))

\* d[k] = v on a Python dict
DictSet(d, k, v) == [x \in DOMAIN d \cup {k} |-> IF x = k THEN v ELSE d[x]]

\* del d[k]
DictDel(d, k) == [x \in DOMAIN d \ {k} |-> d[x]]

\* fraction a < integer k
FracLess(a, k) == a.num < k * a.den

----------------------------------------------------------------------------
(* PressureHistory *)

\* add_reading without the removal of old readings
PressureHistory_add_reading_unpruned(readings, t, pressure_kpa) ==
    Append(readings, [ts |-> t, val |-> pressure_kpa])

PressureHistory_add_reading(readings, t, pressure_kpa) ==
    LET appended == Append(readings, [ts |-> t, val |-> pressure_kpa])
        cutoff_time == t - max_history_minutes
    IN  SelectSeq(appended, LAMBDA x : x.ts >= cutoff_time)

\* get_rate_of_change taking the two newest readings, not oldest/newest
get_rate_of_change_adjacent(readings) ==
    IF Len(readings) < 2 THEN None
    ELSE LET oldest == readings[Len(readings) - 1]
             newest == readings[Len(readings)]
             time_diff == newest.ts - oldest.ts
             n == (newest.val - oldest.val) * 100
             d == oldest.val * time_diff
         IN  IF time_diff = 0 THEN None
             ELSE IF oldest.val = 0 THEN None
             ELSE IF d > 0 THEN Some([num |-> n, den |-> d])
             ELSE Some([num |-> -n, den |-> -d])

get_rate_of_change(readings) ==
    IF Len(readings) < 2 THEN None
    ELSE LET oldest == readings[1]
             newest == readings[Len(readings)]
             time_diff == newest.ts - oldest.ts
             n == (newest.val - oldest.val) * 100
             d == oldest.val * time_diff
         IN  IF time_diff = 0 THEN None
             ELSE IF oldest.val = 0 THEN None
             ELSE IF d > 0 THEN Some([num |-> n, den |-> d])
             ELSE Some([num |-> -n, den |-> -d])

----------------------------------------------------------------------------
(* RadiationHistory *)

\* add_reading with the baseline taken before the new reading is appended
RadiationHistory_add_reading_after(h, radiation_msv_hr) ==
    LET appended == Append(h.readings, radiation_msv_hr)
        kept == IF Len(appended) > max_readings
                THEN LastN(appended, max_readings) ELSE appended
        recent == LastN(h.readings, 5)
    IN  [readings |-> kept,
         baseline |-> IF Len(h.readings) >= 5
                      THEN Some([num |-> SumSeq(recent), den |-> Len(recent)])
                      ELSE h.baseline]

RadiationHistory_add_reading(h, radiation_msv_hr) ==
    LET appended == Append(h.readings, radiation_msv_hr)
        kept == IF Len(appended) > max_readings
                THEN LastN(appended, max_readings) ELSE appended
        recent == LastN(kept, 5)
    IN  [readings |-> kept,
         baseline |-> IF Len(kept) >= 5
                      THEN Some([num |-> SumSeq(recent), den |-> Len(recent)])
                      ELSE h.baseline]

is_spike(h, current) ==
    IF IsNone(h.baseline) THEN FALSE
    ELSE LET b == Get(h.baseline)
         IN  current * b.den > b.num + RADIATION_SPIKE_THRESHOLD * b.den

is_critical(current) == current >= RADIATION_CRITICAL_THRESHOLD

----------------------------------------------------------------------------
(* Records of app.models.  An Alert's message is kept as its fixed prefix, *)
(* which tells the four hazards apart; formatted numbers are left out.     *)

AlertSeverity == [INFO |-> "info", WARNING |-> "warning",
                  CRITICAL |-> "critical"]

Alert(id, severity, category, message, system) ==
    [id |-> id, severity |-> severity, category |-> category,
     message |-> message, system |-> system, resolved |-> FALSE]

Recommendation(id, priority, category, title, action_required) ==
    [id |-> id, priority |-> priority, category |-> category,
     title |-> title, action_required |-> action_required]

\* uuid.uuid4(): a value never drawn before
uuid4(self) == self.uuid + 1

----------------------------------------------------------------------------
(* SafetyLayer.  An operation takes the object (record self, which also    *)
(* carries the uuid source) and returns the object after the call          *)
(* together with the call's results.                                       *)

SafetyLayer_init ==
    [pressure_history |-> <<>>,
     radiation_history |-> [baseline |-> None, readings |-> <<>>],
     active_alerts |-> EmptyDict,
     pending_approvals |-> EmptyDict,
     uuid |-> 0]

\* _create_critical_recommendation that stores no approval requirement
_create_critical_recommendation_unstored(self, action_id, category, title, t, requires_approval) ==
    LET rec_id == uuid4(self)
    IN  [self |-> [self EXCEPT !.uuid = rec_id],
         rec |-> Recommendation(rec_id, "high", category, title, TRUE)]

_create_critical_recommendation(self, action_id, category, title, t, requires_approval) ==
    LET rec_id == uuid4(self)
        entry == [action_id |-> action_id, category |-> category,
                  title |-> title, timestamp |-> t, approved |-> FALSE,
                  approved_by |-> None, approved_at |-> None]
    IN  [self |-> [self EXCEPT
                     !.uuid = rec_id,
                     !.pending_approvals =
                         IF requires_approval
                         THEN DictSet(@, rec_id, entry) ELSE @],
         rec |-> Recommendation(rec_id, "high", category, title, TRUE)]

\* _check_pressure without the test that the leak is not yet Active
_check_pressure_repeat(self, state, t) ==
    LET rate == get_rate_of_change(self.pressure_history)
        alert_id == ALERT_PRESSURE_LEAK
    IN  IF ~IsNone(rate) /\ FracLess(Get(rate), -PRESSURE_LEAK_THRESHOLD)
        THEN LET alert == Alert(self.uuid + 1, AlertSeverity.CRITICAL,
                                "pressure", "PRESSURE LEAK DETECTED",
                                "atmosphere")
                 rec_id == self.uuid + 2
                 entry == [action_id |-> "ISOLATE_COMPARTMENTS",
                           category |-> "pressure",
                           title |-> "Isolate Compartments",
                           timestamp |-> t, approved |-> FALSE,
                           approved_by |-> None, approved_at |-> None]
             IN  [self |-> [self EXCEPT
                              !.uuid = rec_id,
                              !.active_alerts = DictSet(@, alert_id, alert),
                              !.pending_approvals =
                                  DictSet(@, rec_id, entry)],
                  alerts |-> <<alert>>,
                  recommendations |->
                      <<Recommendation(rec_id, "high", "pressure",
                                       "Isolate Compartments", TRUE)>>]
        ELSE IF ALERT_PRESSURE_LEAK \in DOMAIN self.active_alerts
        THEN [self |-> [self EXCEPT !.active_alerts =
                                       DictDel(@, ALERT_PRESSURE_LEAK)],
              alerts |-> <<>>, recommendations |-> <<>>]
        ELSE [self |-> self, alerts |-> <<>>, recommendations |-> <<>>]

_check_pressure(self, state, t) ==
    LET rate == get_rate_of_change(self.pressure_history)
        alert_id == ALERT_PRESSURE_LEAK
    IN  IF ~IsNone(rate) /\ FracLess(Get(rate), -PRESSURE_LEAK_THRESHOLD)
        THEN IF alert_id \notin DOMAIN self.active_alerts
             THEN LET alert == Alert(uuid4(self), AlertSeverity.CRITICAL,
                                     "pressure", "PRESSURE LEAK DETECTED",
                                     "atmosphere")
                      s1 == [self EXCEPT
                               !.uuid = alert.id,
                               !.active_alerts = DictSet(@, alert_id, alert)]
                      c == _create_critical_recommendation(
                               s1, "ISOLATE_COMPARTMENTS", "pressure",
                               "Isolate Compartments", t, TRUE)
                  IN  [self |-> c.self, alerts |-> <<alert>>,
                       recommendations |-> <<c.rec>>]
             ELSE [self |-> self, alerts |-> <<>>, recommendations |-> <<>>]
        ELSE IF /\ ALERT_PRESSURE_LEAK \in DOMAIN self.active_alerts
                /\ (IsNone(rate)
                    \/ ~FracLess(Get(rate), -PRESSURE_LEAK_THRESHOLD))
        THEN [self |-> [self EXCEPT !.active_alerts =
                                       DictDel(@, ALERT_PRESSURE_LEAK)],
              alerts |-> <<>>, recommendations |-> <<>>]
        ELSE [self |-> self, alerts |-> <<>>, recommendations |-> <<>>]

\* lines 130-153 of check_safety: the critical pressure level
check_pressure_critical(self, state, t) ==
    LET alert_id == ALERT_PRESSURE_CRITICAL
    IN  IF state.pressure_kpa < PRESSURE_CRITICAL_THRESHOLD
           /\ alert_id \notin DOMAIN self.active_alerts
        THEN LET alert == Alert(uuid4(self), AlertSeverity.CRITICAL,
                                "pressure",
                                "CRITICAL: Pressure critically low",
                                "atmosphere")
                 s1 == [self EXCEPT
                          !.uuid = alert.id,
                          !.active_alerts = DictSet(@, alert_id, alert)]
                 c == _create_critical_recommendation(
                          s1, "IMMEDIATE_EVACUATION", "pressure",
                          "Immediate Evacuation Required", t, TRUE)
             IN  [self |-> c.self, alerts |-> <<alert>>,
                  recommendations |-> <<c.rec>>]
        ELSE [self |-> self, alerts |-> <<>>, recommendations |-> <<>>]

_check_radiation(self, state, t) ==
    IF is_critical(state.radiation_msv_hr)
    THEN LET alert_id == ALERT_RADIATION_CRITICAL
         IN  IF alert_id \notin DOMAIN self.active_alerts
             THEN LET alert == Alert(uuid4(self), AlertSeverity.CRITICAL,
                                     "radiation",
                                     "CRITICAL: Radiation level",
                                     "radiation")
                      s1 == [self EXCEPT
                               !.uuid = alert.id,
                               !.active_alerts = DictSet(@, alert_id, alert)]
                      c == _create_critical_recommendation(
                               s1, "ACTIVATE_STORM_SHELTER", "radiation",
                               "Activate Storm Shelter Protocol", t, TRUE)
                  IN  [self |-> c.self, alerts |-> <<alert>>,
                       recommendations |-> <<c.rec>>]
             ELSE [self |-> self, alerts |-> <<>>, recommendations |-> <<>>]
    ELSE IF is_spike(self.radiation_history, state.radiation_msv_hr)
    THEN LET alert_id == ALERT_RADIATION_SPIKE
         IN  IF alert_id \notin DOMAIN self.active_alerts
             THEN LET alert == Alert(uuid4(self), AlertSeverity.WARNING,
                                     "radiation",
                                     "Radiation spike detected",
                                     "radiation")
                      s1 == [self EXCEPT
                               !.uuid = alert.id,
                               !.active_alerts = DictSet(@, alert_id, alert)]
                      c == _create_critical_recommendation(
                               s1, "PREPARE_STORM_SHELTER", "radiation",
                               "Prepare Storm Shelter", t, TRUE)
                  IN  [self |-> c.self, alerts |-> <<alert>>,
                       recommendations |-> <<c.rec>>]
             ELSE [self |-> self, alerts |-> <<>>, recommendations |-> <<>>]
    ELSE IF /\ ALERT_RADIATION_SPIKE \in DOMAIN self.active_alerts
            /\ ~is_spike(self.radiation_history, state.radiation_msv_hr)
    THEN [self |-> [self EXCEPT !.active_alerts =
                                   DictDel(@, ALERT_RADIATION_SPIKE)],
          alerts |-> <<>>, recommendations |-> <<>>]
    ELSE [self |-> self, alerts |-> <<>>, recommendations |-> <<>>]

\* check_safety holding its findings back once an action has been approved
check_safety_acknowledging(self, state, t) ==
    LET s0 == [self EXCEPT
                 !.pressure_history =
                     PressureHistory_add_reading(@, t, state.pressure_kpa),
                 !.radiation_history =
                     RadiationHistory_add_reading(@, state.radiation_msv_hr)]
        p == _check_pressure(s0, state, t)
        c == check_pressure_critical(p.self, state, t)
        r == _check_radiation(c.self, state, t)
    IN  IF \E id \in DOMAIN self.pending_approvals :
               self.pending_approvals[id].approved
        THEN [self |-> s0, alerts |-> <<>>, recommendations |-> <<>>]
        ELSE [self |-> r.self,
              alerts |-> p.alerts \o c.alerts \o r.alerts,
              recommendations |->
                  p.recommendations \o c.recommendations \o
                  r.recommendations]

check_safety(self, state, t) ==
    LET s0 == [self EXCEPT
                 !.pressure_history =
                     PressureHistory_add_reading(@, t, state.pressure_kpa),
                 !.radiation_history =
                     RadiationHistory_add_reading(@, state.radiation_msv_hr)]
        p == _check_pressure(s0, state, t)
        c == check_pressure_critical(p.self, state, t)
        r == _check_radiation(c.self, state, t)
    IN  [self |-> r.self,
         alerts |-> p.alerts \o c.alerts \o r.alerts,
         recommendations |->
             p.recommendations \o c.recommendations \o r.recommendations]

\* approve_action that writes the approver before testing the flag
approve_action_overwrite(self, recommendation_id, approved_by, t) ==
    IF recommendation_id \notin DOMAIN self.pending_approvals
    THEN [self |-> self, ok |-> FALSE]
    ELSE [self |-> [self EXCEPT
                      !.pending_approvals[recommendation_id] =
                          [@ EXCEPT !.approved = TRUE,
                                    !.approved_by = Some(approved_by),
                                    !.approved_at =
                                        IF @ = None THEN Some(t) ELSE @]],
          ok |-> ~self.pending_approvals[recommendation_id].approved]

\* approve_action taking the entry out of the dict once it is approved
approve_action_consuming(self, recommendation_id, approved_by, t) ==
    IF recommendation_id \notin DOMAIN self.pending_approvals
    THEN [self |-> self, ok |-> FALSE]
    ELSE IF self.pending_approvals[recommendation_id].approved
    THEN [self |-> self, ok |-> FALSE]
    ELSE [self |-> [self EXCEPT
                      !.pending_approvals =
                          DictDel(@, recommendation_id)],
          ok |-> TRUE]

\* approve_action without the test of the approved flag
approve_action_nocheck(self, recommendation_id, approved_by, t) ==
    IF recommendation_id \notin DOMAIN self.pending_approvals
    THEN [self |-> self, ok |-> FALSE]
    ELSE [self |-> [self EXCEPT
                      !.pending_approvals[recommendation_id] =
                          [@ EXCEPT !.approved = TRUE,
                                    !.approved_by = Some(approved_by),
                                    !.approved_at = Some(t)]],
          ok |-> TRUE]

approve_action(self, recommendation_id, approved_by, t) ==
    IF recommendation_id \notin DOMAIN self.pending_approvals
    THEN [self |-> self, ok |-> FALSE]
    ELSE IF self.pending_approvals[recommendation_id].approved
    THEN [self |-> self, ok |-> FALSE]
    ELSE [self |-> [self EXCEPT
                      !.pending_approvals[recommendation_id] =
                          [@ EXCEPT !.approved = TRUE,
                                    !.approved_by = Some(approved_by),
                                    !.approved_at = Some(t)]],
          ok |-> TRUE]

\* the keys of a dict in the order they were inserted: the keys are uuid4()
\* values, which the model draws in increasing order
RECURSIVE KeysInOrder(_)
KeysInOrder(ks) ==
    IF ks = {} THEN <<>>
    ELSE LET k == CHOOSE x \in ks : \A y \in ks : x <= y
         IN  <<k>> \o KeysInOrder(ks \ {k})

\* {**approval, "recommendation_id": rec_id}
WithRecommendationId(approval, rec_id) ==
    [action_id |-> approval.action_id, category |-> approval.category,
     title |-> approval.title, timestamp |-> approval.timestamp,
     approved |-> approval.approved, approved_by |-> approval.approved_by,
     approved_at |-> approval.approved_at, recommendation_id |-> rec_id]

\* get_pending_approvals without the test of the approved flag
get_pending_approvals_all(self) ==
    LET ids == KeysInOrder(DOMAIN self.pending_approvals)
    IN  [i \in 1..Len(ids) |->
            WithRecommendationId(self.pending_approvals[ids[i]], ids[i])]

get_pending_approvals(self) ==
    LET ids == KeysInOrder({rec_id \in DOMAIN self.pending_approvals :
                               ~self.pending_approvals[rec_id].approved})
    IN  [i \in 1..Len(ids) |->
            WithRecommendationId(self.pending_approvals[ids[i]], ids[i])]

get_approval_status(self, recommendation_id) ==
    IF recommendation_id \notin DOMAIN self.pending_approvals
    THEN None
    ELSE Some(self.pending_approvals[recommendation_id])

----------------------------------------------------------------------------
(* The anomaly detector (src/api/app/anomaly_detector.py).                 *)
(*                                                                         *)
(* Numbers.  A sample is an integer: pressure in units of 0.025 kPa, so    *)
(* that 101.325 and 110.0 kPa are 4053 and 4400, radiation in hundredths   *)
(* of a mSv/hr, battery in kWh.  The detector's arithmetic is carried out  *)
(* exactly: a mean or a variance is a fraction in lowest terms; a square   *)
(* root (std_dev, and a z-score, which is a quotient by one) is kept as    *)
(* its sign and its square; the EWMA is a decimal number with all its      *)
(* digits; float('inf') and float('-inf') are values of their own.         *)

RECURSIVE GCD(_, _)
GCD(a, b) == IF b = 0 THEN a ELSE GCD(b, a % b)

Abs(x) == IF x < 0 THEN -x ELSE x

Sgn(x) == IF x < 0 THEN -1 ELSE IF x > 0 THEN 1 ELSE 0

\* the fraction n/d, d > 0, in lowest terms
Frac(n, d) ==
    LET g == GCD(Abs(n), d) IN [num |-> n \div g, den |-> d \div g]

IntFrac(x) == [num |-> x, den |-> 1]

FracSub(a, b) == Frac(a.num * b.den - b.num * a.den, a.den * b.den)

\* the product of two fractions in lowest terms, cancelled before multiplying
FracMul(a, b) ==
    LET g1 == GCD(Abs(a.num), b.den)
        g2 == GCD(Abs(b.num), a.den)
    IN  [num |-> (a.num \div g1) * (b.num \div g2),
         den |-> (a.den \div g2) * (b.den \div g1)]

\* a / b for b > 0
FracDiv(a, b) == FracMul(a, [num |-> b.den, den |-> b.num])

FracSq(a) == [num |-> a.num * a.num, den |-> a.den * a.den]

FracLeq(a, b) == a.num * b.den <= b.num * a.den

\* math.sqrt(x) for a fraction x >= 0
math_sqrt(x) == [sign |-> Sgn(x.num), sq |-> x]

\* the float 0.0 where the code holds a root
RootZero == [sign |-> 0, sq |-> IntFrac(0)]

\* q / r for a fraction q and a root r > 0
DivByRoot(q, r) == [sign |-> Sgn(q.num), sq |-> FracDiv(FracSq(q), r.sq)]

\* abs(r) for a root r
RootAbs(r) == [sign |-> Abs(r.sign), sq |-> r.sq]

\* r >= t for a root r and a fraction t > 0
RootGeq(r, t) == r.sign > 0 /\ FracLeq(FracSq(t), r.sq)

\* the decimal number with integer part x and no fractional digits
Dec(x) == [int |-> x, frac |-> <<>>]

\* a sequence of decimal digits without its trailing zeros
RECURSIVE Trim(_)
Trim(ds) ==
    IF ds = <<>> THEN <<>>
    ELSE IF ds[Len(ds)] = 0 THEN Trim(SubSeq(ds, 1, Len(ds) - 1))
    ELSE ds

\* k times the fractional digits ds plus a carry c from the digits to
\* their right: the digits of the product and the carry out of them; the
\* right half is multiplied first and its carry, a digit, goes into the left
RECURSIVE TimesDigitCarry(_, _, _)
TimesDigitCarry(ds, k, c) ==
    IF ds = <<>> THEN [digits |-> <<>>, carry |-> c]
    ELSE IF Len(ds) = 1
    THEN [digits |-> <<(k * ds[1] + c) % 10>>,
          carry |-> (k * ds[1] + c) \div 10]
    ELSE LET right == TimesDigitCarry(SubSeq(ds, Len(ds) \div 2 + 1, Len(ds)),
                                      k, c)
         IN  CASE right.carry \in 0..9 ->
                 LET left == TimesDigitCarry(SubSeq(ds, 1, Len(ds) \div 2), k,
                                             right.carry)
                 IN  [digits |-> left.digits \o right.digits,
                      carry |-> left.carry]

\* k times the fractional digits ds: the digits of the product and the
\* carry into the integer part
TimesDigit(ds, k) == TimesDigitCarry(ds, k, 0)

\* alpha * value + (1 - alpha) * e for alpha a number of tenths, value an
\* integer and e a decimal number
DecBlend(alpha, value, e) ==
    LET m == TimesDigit(e.frac, alpha.den - alpha.num)
        units == (alpha.den - alpha.num) * e.int + alpha.num * value + m.carry
    IN  [int |-> units \div alpha.den,
         frac |-> Trim(<<units % alpha.den>> \o m.digits)]

float_inf == [inf |-> 1, val |-> 0]
float_neg_inf == [inf |-> -1, val |-> 0]
Finite(x) == [inf |-> 0, val |-> x]

\* min(a, value) and max(a, value) for a possibly infinite a
py_min(a, value) ==
    IF a.inf = 1 THEN Finite(value)
    ELSE IF a.inf = -1 THEN a
    ELSE IF value < a.val THEN Finite(value) ELSE a

py_max(a, value) ==
    IF a.inf = -1 THEN Finite(value)
    ELSE IF a.inf = 1 THEN a
    ELSE IF value > a.val THEN Finite(value) ELSE a

Z_SCORE_THRESHOLD == [num |-> 5, den |-> 2]

\* a critical threshold of 3 standard deviations
Z_SCORE_CRITICAL_at_3 == [num |-> 3, den |-> 1]

Z_SCORE_CRITICAL == [num |-> 7, den |-> 2]
EWMA_ALPHA == [num |-> 3, den |-> 10]
max_history_size == 100

Metrics == {"pressure", "radiation", "battery"}

MetricStatistics ==
    [mean |-> IntFrac(0), std_dev |-> RootZero, ewma |-> Dec(0),
     min_value |-> float_inf, max_value |-> float_neg_inf,
     sample_count |-> 0, last_value |-> 0]

AnomalyAlert(id, timestamp, metric, severity, current_value, z_score, evidence) ==
    [id |-> id, timestamp |-> timestamp, metric |-> metric,
     severity |-> severity, current_value |-> current_value,
     z_score |-> z_score, evidence |-> evidence]

\* the AnomalyDetector object; uuid is the source of uuid4() values
AnomalyDetector_init ==
    [pressure_stats |-> MetricStatistics,
     radiation_stats |-> MetricStatistics,
     battery_stats |-> MetricStatistics,
     history |-> [m \in Metrics |-> <<>>],
     uuid |-> 0]

\* _get_stats returns the statistics object or raises ValueError
\* _get_stats that answers an unknown name with the pressure statistics
_get_stats_default(self, metric_name) ==
    IF metric_name = "radiation"
    THEN [raised |-> FALSE, stats |-> self.radiation_stats]
    ELSE IF metric_name = "battery"
    THEN [raised |-> FALSE, stats |-> self.battery_stats]
    ELSE [raised |-> FALSE, stats |-> self.pressure_stats]

_get_stats(self, metric_name) ==
    IF metric_name = "pressure"
    THEN [raised |-> FALSE, stats |-> self.pressure_stats]
    ELSE IF metric_name = "radiation"
    THEN [raised |-> FALSE, stats |-> self.radiation_stats]
    ELSE IF metric_name = "battery"
    THEN [raised |-> FALSE, stats |-> self.battery_stats]
    ELSE [raised |-> TRUE, stats |-> None]

\* WithStats with min_value, max_value and sample_count taken from the
\* samples that are still in the history
WithStats_of_window(self, metric_name, stats) ==
    LET values == self.history[metric_name]
        least == CHOOSE x \in {values[i] : i \in DOMAIN values} :
                     \A i \in DOMAIN values : x <= values[i]
        most == CHOOSE x \in {values[i] : i \in DOMAIN values} :
                    \A i \in DOMAIN values : x >= values[i]
        windowed == [stats EXCEPT !.min_value = Finite(least),
                                  !.max_value = Finite(most),
                                  !.sample_count = Len(values)]
    IN  IF metric_name = "pressure"
        THEN [self EXCEPT !.pressure_stats = windowed]
        ELSE IF metric_name = "radiation"
        THEN [self EXCEPT !.radiation_stats = windowed]
        ELSE [self EXCEPT !.battery_stats = windowed]

\* the detector after an in-place change of the object _get_stats returned
WithStats(self, metric_name, stats) ==
    IF metric_name = "pressure" THEN [self EXCEPT !.pressure_stats = stats]
    ELSE IF metric_name = "radiation"
    THEN [self EXCEPT !.radiation_stats = stats]
    ELSE [self EXCEPT !.battery_stats = stats]

\* sum((x - mean) ** 2 for x in values), times the square of mean.den
SumSqDev(values, mean) ==
    SumSeq([i \in 1..Len(values) |->
               (values[i] * mean.den - mean.num) *
               (values[i] * mean.den - mean.num)])

\* update_metric that blends the first sample into the initial EWMA of 0
update_metric_unseeded(self, metric_name, value) ==
    LET got == _get_stats(self, metric_name)
    IN  IF got.raised THEN [self |-> self, raised |-> TRUE]
        ELSE
        LET stats == got.stats
            appended == Append(self.history[metric_name], value)
            values == IF Len(appended) > max_history_size
                      THEN Tail(appended) ELSE appended
            sample_count == stats.sample_count + 1
            ewma == DecBlend(EWMA_ALPHA, value, stats.ewma)
            mean == Frac(SumSeq(values), Len(values))
            variance == Frac(SumSqDev(values, mean),
                             mean.den * mean.den * Len(values))
            updated ==
                [mean |-> IF Len(values) >= 2 THEN mean ELSE stats.mean,
                 std_dev |-> IF Len(values) >= 2
                             THEN IF variance.num > 0
                                  THEN math_sqrt(variance) ELSE RootZero
                             ELSE stats.std_dev,
                 ewma |-> ewma,
                 min_value |-> py_min(stats.min_value, value),
                 max_value |-> py_max(stats.max_value, value),
                 sample_count |-> sample_count,
                 last_value |-> value]
        IN  [self |-> WithStats([self EXCEPT !.history[metric_name] = values],
                                metric_name, updated),
             raised |-> FALSE]

update_metric(self, metric_name, value) ==
    LET got == _get_stats(self, metric_name)
    IN  IF got.raised THEN [self |-> self, raised |-> TRUE]
        ELSE IF metric_name \notin DOMAIN self.history
        THEN \* no list to append to; the running values are updated and
             \* the read of the history at line 77 raises KeyError
             [self |-> WithStats(
                           self, metric_name,
                           [got.stats EXCEPT
                               !.min_value = py_min(@, value),
                               !.max_value = py_max(@, value),
                               !.last_value = value,
                               !.sample_count = @ + 1,
                               !.ewma = IF got.stats.sample_count = 0
                                        THEN Dec(value)
                                        ELSE DecBlend(EWMA_ALPHA, value, @)]),
              raised |-> TRUE]
        ELSE
        LET stats == got.stats
            appended == Append(self.history[metric_name], value)
            values == IF Len(appended) > max_history_size
                      THEN Tail(appended) ELSE appended
            sample_count == stats.sample_count + 1
            ewma == IF sample_count = 1 THEN Dec(value)
                    ELSE DecBlend(EWMA_ALPHA, value, stats.ewma)
            mean == Frac(SumSeq(values), Len(values))
            variance == Frac(SumSqDev(values, mean),
                             mean.den * mean.den * Len(values))
            updated ==
                [mean |-> IF Len(values) >= 2 THEN mean ELSE stats.mean,
                 std_dev |-> IF Len(values) >= 2
                             THEN IF variance.num > 0
                                  THEN math_sqrt(variance) ELSE RootZero
                             ELSE stats.std_dev,
                 ewma |-> ewma,
                 min_value |-> py_min(stats.min_value, value),
                 max_value |-> py_max(stats.max_value, value),
                 sample_count |-> sample_count,
                 last_value |-> value]
        IN  [self |-> WithStats([self EXCEPT !.history[metric_name] = values],
                                metric_name, updated),
             raised |-> FALSE]

\* (value - stats.mean) / stats.std_dev if stats.std_dev > 0 else 0.0
ZScore(stats, value) ==
    IF stats.std_dev.sign > 0
    THEN DivByRoot(FracSub(IntFrac(value), stats.mean), stats.std_dev)
    ELSE RootZero

\* the entries of the evidence dict that are not rounded numbers
Evidence(stats, abs_z_score, anomaly_type) ==
    [sample_count |-> stats.sample_count,
     anomaly_type |-> anomaly_type,
     statistical_significance |->
         IF RootGeq(abs_z_score, Z_SCORE_CRITICAL)
         THEN "critical" ELSE "significant"]

\* _detect_pressure_anomaly without the test of sample_count
_detect_pressure_anomaly_ungated(self, value, t) ==
    LET stats == self.pressure_stats
        z_score == ZScore(stats, value)
        abs_z_score == RootAbs(z_score)
        is_high == z_score.sign > 0
        emit(severity) ==
            [self |-> [self EXCEPT !.uuid = uuid4(self)],
             alert |-> Some(AnomalyAlert(uuid4(self), t, "pressure",
                          severity, value, z_score,
                          Evidence(stats, abs_z_score,
                                   IF is_high THEN "high" ELSE "low")))]
    IN  IF stats.std_dev.sign = 0 THEN [self |-> self, alert |-> None]
        ELSE IF RootGeq(abs_z_score, Z_SCORE_CRITICAL)
        THEN emit(AlertSeverity.CRITICAL)
        ELSE IF RootGeq(abs_z_score, Z_SCORE_THRESHOLD)
        THEN emit(AlertSeverity.WARNING)
        ELSE [self |-> self, alert |-> None]

_detect_pressure_anomaly(self, value, t) ==
    LET stats == self.pressure_stats
        z_score == ZScore(stats, value)
        abs_z_score == RootAbs(z_score)
        is_high == z_score.sign > 0
        emit(severity) ==
            [self |-> [self EXCEPT !.uuid = uuid4(self)],
             alert |-> Some(AnomalyAlert(uuid4(self), t, "pressure",
                          severity, value, z_score,
                          Evidence(stats, abs_z_score,
                                   IF is_high THEN "high" ELSE "low")))]
    IN  IF stats.sample_count < 10 THEN [self |-> self, alert |-> None]
        ELSE IF stats.std_dev.sign = 0 THEN [self |-> self, alert |-> None]
        ELSE IF RootGeq(abs_z_score, Z_SCORE_CRITICAL)
        THEN emit(AlertSeverity.CRITICAL)
        ELSE IF RootGeq(abs_z_score, Z_SCORE_THRESHOLD)
        THEN emit(AlertSeverity.WARNING)
        ELSE [self |-> self, alert |-> None]

\* _detect_radiation_anomaly without the test of the sign of z
_detect_radiation_anomaly_two_sided(self, value, t) ==
    LET stats == self.radiation_stats
        z_score == ZScore(stats, value)
        abs_z_score == RootAbs(z_score)
        emit(severity) ==
            [self |-> [self EXCEPT !.uuid = uuid4(self)],
             alert |-> Some(AnomalyAlert(uuid4(self), t, "radiation",
                          severity, value, z_score,
                          Evidence(stats, abs_z_score, "spike")))]
    IN  IF stats.sample_count < 10 THEN [self |-> self, alert |-> None]
        ELSE IF stats.std_dev.sign = 0 THEN [self |-> self, alert |-> None]
        ELSE IF RootGeq(abs_z_score, Z_SCORE_CRITICAL)
        THEN emit(AlertSeverity.CRITICAL)
        ELSE IF RootGeq(abs_z_score, Z_SCORE_THRESHOLD)
        THEN emit(AlertSeverity.WARNING)
        ELSE [self |-> self, alert |-> None]

_detect_radiation_anomaly(self, value, t) ==
    LET stats == self.radiation_stats
        z_score == ZScore(stats, value)
        abs_z_score == RootAbs(z_score)
        emit(severity) ==
            [self |-> [self EXCEPT !.uuid = uuid4(self)],
             alert |-> Some(AnomalyAlert(uuid4(self), t, "radiation",
                          severity, value, z_score,
                          Evidence(stats, abs_z_score, "spike")))]
    IN  IF stats.sample_count < 10 THEN [self |-> self, alert |-> None]
        ELSE IF stats.std_dev.sign = 0 THEN [self |-> self, alert |-> None]
        ELSE IF RootGeq(abs_z_score, Z_SCORE_CRITICAL) /\ z_score.sign > 0
        THEN emit(AlertSeverity.CRITICAL)
        ELSE IF RootGeq(abs_z_score, Z_SCORE_THRESHOLD) /\ z_score.sign > 0
        THEN emit(AlertSeverity.WARNING)
        ELSE [self |-> self, alert |-> None]

\* _detect_battery_anomaly with |z| > 3.5 for |z| >= 3.5
_detect_battery_anomaly_strict(self, value, t) ==
    LET stats == self.battery_stats
        z_score == ZScore(stats, value)
        abs_z_score == RootAbs(z_score)
        is_high == z_score.sign > 0
        emit(severity) ==
            [self |-> [self EXCEPT !.uuid = uuid4(self)],
             alert |-> Some(AnomalyAlert(uuid4(self), t, "battery",
                          severity, value, z_score,
                          Evidence(stats, abs_z_score,
                                   IF is_high THEN "high" ELSE "low")))]
    IN  IF stats.sample_count < 10 THEN [self |-> self, alert |-> None]
        ELSE IF stats.std_dev.sign = 0 THEN [self |-> self, alert |-> None]
        ELSE IF RootGeq(abs_z_score, Z_SCORE_CRITICAL) /\
                abs_z_score.sq # FracSq(Z_SCORE_CRITICAL)
        THEN emit(AlertSeverity.CRITICAL)
        ELSE IF RootGeq(abs_z_score, Z_SCORE_THRESHOLD)
        THEN emit(AlertSeverity.WARNING)
        ELSE [self |-> self, alert |-> None]

_detect_battery_anomaly(self, value, t) ==
    LET stats == self.battery_stats
        z_score == ZScore(stats, value)
        abs_z_score == RootAbs(z_score)
        is_high == z_score.sign > 0
        emit(severity) ==
            [self |-> [self EXCEPT !.uuid = uuid4(self)],
             alert |-> Some(AnomalyAlert(uuid4(self), t, "battery",
                          severity, value, z_score,
                          Evidence(stats, abs_z_score,
                                   IF is_high THEN "high" ELSE "low")))]
    IN  IF stats.sample_count < 10 THEN [self |-> self, alert |-> None]
        ELSE IF stats.std_dev.sign = 0 THEN [self |-> self, alert |-> None]
        ELSE IF RootGeq(abs_z_score, Z_SCORE_CRITICAL)
        THEN emit(AlertSeverity.CRITICAL)
        ELSE IF RootGeq(abs_z_score, Z_SCORE_THRESHOLD)
        THEN emit(AlertSeverity.WARNING)
        ELSE [self |-> self, alert |-> None]

\* detect_anomalies that classifies each sample before it updates the window
detect_anomalies_stale(self, pressure, radiation, battery, t) ==
    LET p == _detect_pressure_anomaly(self, pressure, t)
        r == _detect_radiation_anomaly(p.self, radiation, t)
        b == _detect_battery_anomaly(r.self, battery, t)
        u1 == update_metric(b.self, "pressure", pressure).self
        u2 == update_metric(u1, "radiation", radiation).self
        u3 == update_metric(u2, "battery", battery).self
    IN  [self |-> u3, alerts |-> p.alert \o r.alert \o b.alert]

detect_anomalies(self, pressure, radiation, battery, t) ==
    LET u1 == update_metric(self, "pressure", pressure).self
        u2 == update_metric(u1, "radiation", radiation).self
        u3 == update_metric(u2, "battery", battery).self
        p == _detect_pressure_anomaly(u3, pressure, t)
        r == _detect_radiation_anomaly(p.self, radiation, t)
        b == _detect_battery_anomaly(r.self, battery, t)
    IN  [self |-> b.self, alerts |-> p.alert \o r.alert \o b.alert]

\* reset_statistics that leaves the history of a single metric in place
reset_statistics_keeps_history(self, metric_name) ==
    IF IsNone(metric_name)
    THEN [self |-> [self EXCEPT !.pressure_stats = MetricStatistics,
                                !.radiation_stats = MetricStatistics,
                                !.battery_stats = MetricStatistics,
                                !.history = [m \in Metrics |-> <<>>]],
          raised |-> FALSE]
    ELSE IF _get_stats(self, Get(metric_name)).raised
    THEN [self |-> self, raised |-> TRUE]
    ELSE [self |-> WithStats(self, Get(metric_name), MetricStatistics),
          raised |-> FALSE]

\* metric_name is None or Some(name)
reset_statistics(self, metric_name) ==
    IF IsNone(metric_name)
    THEN [self |-> [self EXCEPT !.pressure_stats = MetricStatistics,
                                !.radiation_stats = MetricStatistics,
                                !.battery_stats = MetricStatistics,
                                !.history = [m \in Metrics |-> <<>>]],
          raised |-> FALSE]
    ELSE IF _get_stats(self, Get(metric_name)).raised
    THEN [self |-> self, raised |-> TRUE]
    ELSE [self |-> WithStats(
                       [self EXCEPT !.history =
                            IF Get(metric_name) \in DOMAIN @
                            THEN [@ EXCEPT ![Get(metric_name)] = <<>>]
                            ELSE @],
                       Get(metric_name), MetricStatistics),
          raised |-> FALSE]

----------------------------------------------------------------------------
(* The state machine *)

(* DecisionEngine *)

(* A quantity of the settlement state, a threshold and a deviation are     *)
(* integers, in thousandths of the unit the code holds them in: 21.0 %     *)
(* of oxygen is 21000, the 20.5 % threshold 20500, a deviation of 1.0      *)
(* 1000.  On such values the code's float sums and differences are exact.  *)
Milli == 1000

LIFE_SUPPORT_THRESHOLDS ==
    [o2_min |-> 20000, o2_optimal_min |-> 20500, o2_optimal_max |-> 21500,
     co2_max |-> 500000, co2_warning |-> 450000,
     pressure_min |-> 95000, pressure_optimal_min |-> 98000,
     pressure_optimal_max |-> 103000,
     temp_min |-> 18000, temp_max |-> 22000,
     humidity_min |-> 40000, humidity_max |-> 60000,
     crop_health_min |-> 75000, crop_health_optimal |-> 85000]

ENERGY_THRESHOLDS ==
    [battery_min |-> 30000, battery_warning |-> 50000,
     battery_optimal_min |-> 60000, battery_optimal_max |-> 90000,
     solar_min |-> 500000, load_max |-> 900000,
     load_optimal_max |-> 850000, energy_reserve_min |-> 200]

\* SettlementState(): the defaults of the dataclass
SettlementState_init ==
    [o2_pct |-> 21000, co2_ppm |-> 400000, pressure_kpa |-> 101325,
     temp_c |-> 20000, humidity_pct |-> 50000, solar_kw |-> 1000000,
     battery_kwh |-> 500000, load_kw |-> 800000,
     crop_health_index |-> 85000, radiation_msv_hr |-> 20,
     strain_index |-> 500]

\* fraction a < fraction b
FracLt(a, b) == a.num * b.den < b.num * a.den

\* round(x) for int(x): halves go up
py_int_rounded(x) ==
    IF x.num >= 0 THEN (2 * x.num + x.den) \div (2 * x.den)
    ELSE -((2 * (-x.num) + x.den) \div (2 * x.den))
\* int(x) of a fraction x: the digits after the point are dropped
py_int(x) ==
    IF x.num >= 0 THEN x.num \div x.den ELSE -((-x.num) \div x.den)

\* the factor an impact level multiplies the priority by
impact_multiplier ==
    [critical |-> IntFrac(2), high |-> Frac(3, 2), medium |-> IntFrac(1),
     low |-> Frac(1, 2)]

\* the priority as computed, with no clamp
calculate_priority_unclamped(deviation_from_threshold, impact_level, flag_critical) ==
    LET stepped ==
            IF Abs(deviation_from_threshold) > 20 * Milli THEN 5 + 3
            ELSE IF Abs(deviation_from_threshold) > 10 * Milli THEN 5 + 2
            ELSE IF Abs(deviation_from_threshold) > 5 * Milli THEN 5 + 1
            ELSE 5
        factor ==
            IF impact_level \in DOMAIN impact_multiplier
            THEN impact_multiplier[impact_level]
            ELSE IntFrac(1)
        scaled == py_int(FracMul(IntFrac(stepped), factor))
    IN  IF flag_critical THEN scaled + 2 ELSE scaled
\* the third parameter is the code's is_critical
calculate_priority(deviation_from_threshold, impact_level, flag_critical) ==
    LET stepped ==
            IF Abs(deviation_from_threshold) > 20 * Milli THEN 5 + 3
            ELSE IF Abs(deviation_from_threshold) > 10 * Milli THEN 5 + 2
            ELSE IF Abs(deviation_from_threshold) > 5 * Milli THEN 5 + 1
            ELSE 5
        factor ==
            IF impact_level \in DOMAIN impact_multiplier
            THEN impact_multiplier[impact_level]
            ELSE IntFrac(1)
        scaled == py_int(FracMul(IntFrac(stepped), factor))
        base_priority == IF flag_critical THEN scaled + 2 ELSE scaled
    IN  IF 1 > base_priority THEN 1
        ELSE IF base_priority > 10 THEN 10
        ELSE base_priority

\* the engine's own Recommendation(...) as the analyses build it.  The
\* id, a fresh uuid4, the texts, the echoed values and the confidence are
\* read by no operation of the engine and are left out.
EngineRecommendation(priority, category, action, impact) ==
    [priority |-> priority, category |-> category, action |-> action,
     impact |-> impact]

\* the critical band scored as the band after it is
_analyze_oxygen_scored_high(state) ==
    LET o2 == state.o2_pct
        threshold_min == LIFE_SUPPORT_THRESHOLDS.o2_min
        threshold_optimal_min == LIFE_SUPPORT_THRESHOLDS.o2_optimal_min
    IN  IF o2 < threshold_min
        THEN Some(EngineRecommendation(
                 calculate_priority(threshold_min - o2, "high", FALSE),
                 "life_support", "INCREASE_O2_GENERATION", "critical"))
        ELSE IF o2 < threshold_optimal_min
        THEN Some(EngineRecommendation(
                 calculate_priority(threshold_optimal_min - o2, "high",
                                    FALSE),
                 "life_support", "INCREASE_O2_GENERATION", "high"))
        ELSE IF o2 > LIFE_SUPPORT_THRESHOLDS.o2_optimal_max
        THEN Some(EngineRecommendation(
                 calculate_priority(
                     o2 - LIFE_SUPPORT_THRESHOLDS.o2_optimal_max, "medium",
                     FALSE),
                 "life_support", "REDUCE_O2_GENERATION", "medium"))
        ELSE None
_analyze_oxygen(state) ==
    LET o2 == state.o2_pct
        threshold_min == LIFE_SUPPORT_THRESHOLDS.o2_min
        threshold_optimal_min == LIFE_SUPPORT_THRESHOLDS.o2_optimal_min
    IN  IF o2 < threshold_min
        THEN Some(EngineRecommendation(
                 calculate_priority(threshold_min - o2, "critical", TRUE),
                 "life_support", "INCREASE_O2_GENERATION", "critical"))
        ELSE IF o2 < threshold_optimal_min
        THEN Some(EngineRecommendation(
                 calculate_priority(threshold_optimal_min - o2, "high",
                                    FALSE),
                 "life_support", "INCREASE_O2_GENERATION", "high"))
        ELSE IF o2 > LIFE_SUPPORT_THRESHOLDS.o2_optimal_max
        THEN Some(EngineRecommendation(
                 calculate_priority(
                     o2 - LIFE_SUPPORT_THRESHOLDS.o2_optimal_max, "medium",
                     FALSE),
                 "life_support", "REDUCE_O2_GENERATION", "medium"))
        ELSE None

_analyze_co2(state) ==
    LET co2 == state.co2_ppm
        threshold_max == LIFE_SUPPORT_THRESHOLDS.co2_max
        threshold_warning == LIFE_SUPPORT_THRESHOLDS.co2_warning
    IN  IF co2 > threshold_max
        THEN Some(EngineRecommendation(
                 calculate_priority(co2 - threshold_max, "critical", TRUE),
                 "life_support", "INCREASE_CO2_SCRUBBING", "critical"))
        ELSE IF co2 > threshold_warning
        THEN Some(EngineRecommendation(
                 calculate_priority(co2 - threshold_warning, "high", FALSE),
                 "life_support", "INCREASE_CO2_SCRUBBING", "high"))
        ELSE None

_analyze_pressure(state) ==
    LET pressure == state.pressure_kpa
        threshold_min == LIFE_SUPPORT_THRESHOLDS.pressure_min
        threshold_optimal_min ==
            LIFE_SUPPORT_THRESHOLDS.pressure_optimal_min
    IN  IF pressure < threshold_min
        THEN Some(EngineRecommendation(
                 calculate_priority(threshold_min - pressure, "critical",
                                    TRUE),
                 "life_support", "INCREASE_PRESSURE", "critical"))
        ELSE IF pressure < threshold_optimal_min
        THEN Some(EngineRecommendation(
                 calculate_priority(threshold_optimal_min - pressure,
                                    "high", FALSE),
                 "life_support", "INCREASE_PRESSURE", "high"))
        ELSE IF pressure > LIFE_SUPPORT_THRESHOLDS.pressure_optimal_max
        THEN Some(EngineRecommendation(
                 calculate_priority(
                     pressure - LIFE_SUPPORT_THRESHOLDS.pressure_optimal_max,
                     "medium", FALSE),
                 "life_support", "REDUCE_PRESSURE", "medium"))
        ELSE None

_analyze_temperature(state) ==
    LET temp == state.temp_c
        threshold_min == LIFE_SUPPORT_THRESHOLDS.temp_min
        threshold_max == LIFE_SUPPORT_THRESHOLDS.temp_max
    IN  IF temp < threshold_min
        THEN Some(EngineRecommendation(
                 calculate_priority(threshold_min - temp, "high", FALSE),
                 "life_support", "INCREASE_TEMPERATURE", "high"))
        ELSE IF temp > threshold_max
        THEN Some(EngineRecommendation(
                 calculate_priority(temp - threshold_max, "high", FALSE),
                 "life_support", "DECREASE_TEMPERATURE", "high"))
        ELSE None

_analyze_humidity(state) ==
    LET humidity == state.humidity_pct
        threshold_min == LIFE_SUPPORT_THRESHOLDS.humidity_min
        threshold_max == LIFE_SUPPORT_THRESHOLDS.humidity_max
    IN  IF humidity < threshold_min
        THEN Some(EngineRecommendation(
                 calculate_priority(threshold_min - humidity, "medium",
                                    FALSE),
                 "life_support", "INCREASE_HUMIDITY", "medium"))
        ELSE IF humidity > threshold_max
        THEN Some(EngineRecommendation(
                 calculate_priority(humidity - threshold_max, "medium",
                                    FALSE),
                 "life_support", "DECREASE_HUMIDITY", "medium"))
        ELSE None

_analyze_crop_health(state) ==
    LET crop_health == state.crop_health_index
        threshold_min == LIFE_SUPPORT_THRESHOLDS.crop_health_min
        threshold_optimal == LIFE_SUPPORT_THRESHOLDS.crop_health_optimal
    IN  IF crop_health < threshold_min
        THEN Some(EngineRecommendation(
                 calculate_priority(threshold_min - crop_health, "high",
                                    FALSE),
                 "life_support", "IMPROVE_CROP_HEALTH", "high"))
        ELSE IF crop_health < threshold_optimal
        THEN Some(EngineRecommendation(
                 calculate_priority(threshold_optimal - crop_health,
                                    "medium", FALSE),
                 "life_support", "OPTIMIZE_CROP_HEALTH", "medium"))
        ELSE None

\* the Recommendations that are not None, in the order given
Present(optionals) ==
    LET Flat[i \in 0..Len(optionals)] ==
            IF i = 0 THEN <<>>
            ELSE IF IsNone(optionals[i]) THEN Flat[i - 1]
            ELSE Append(Flat[i - 1], optionals[i][1])
    IN  Flat[Len(optionals)]

_analyze_life_support(state) ==
    Present(<<_analyze_oxygen(state), _analyze_co2(state),
              _analyze_pressure(state), _analyze_temperature(state),
              _analyze_humidity(state), _analyze_crop_health(state)>>)

\* the bands tried from the widest to the narrowest
_analyze_battery_widest_first(state) ==
    LET battery == state.battery_kwh
        threshold_min == ENERGY_THRESHOLDS.battery_min
        threshold_warning == ENERGY_THRESHOLDS.battery_warning
        threshold_optimal_min == ENERGY_THRESHOLDS.battery_optimal_min
    IN  IF battery < threshold_optimal_min
        THEN Some(EngineRecommendation(
                 calculate_priority(threshold_optimal_min - battery,
                                    "medium", FALSE),
                 "energy_dispatch", "OPTIMIZE_CHARGING", "medium"))
        ELSE IF battery < threshold_warning
        THEN Some(EngineRecommendation(
                 calculate_priority(threshold_warning - battery, "high",
                                    FALSE),
                 "energy_dispatch", "INCREASE_CHARGING", "high"))
        ELSE IF battery < threshold_min
        THEN Some(EngineRecommendation(
                 calculate_priority(threshold_min - battery, "critical",
                                    TRUE),
                 "energy_dispatch", "PRIORITIZE_CHARGING", "critical"))
        ELSE IF battery > ENERGY_THRESHOLDS.battery_optimal_max
        THEN Some(EngineRecommendation(
                 calculate_priority(
                     battery - ENERGY_THRESHOLDS.battery_optimal_max, "low",
                     FALSE),
                 "energy_dispatch", "INCREASE_LOAD", "low"))
        ELSE None
_analyze_battery(state) ==
    LET battery == state.battery_kwh
        threshold_min == ENERGY_THRESHOLDS.battery_min
        threshold_warning == ENERGY_THRESHOLDS.battery_warning
        threshold_optimal_min == ENERGY_THRESHOLDS.battery_optimal_min
    IN  IF battery < threshold_min
        THEN Some(EngineRecommendation(
                 calculate_priority(threshold_min - battery, "critical",
                                    TRUE),
                 "energy_dispatch", "PRIORITIZE_CHARGING", "critical"))
        ELSE IF battery < threshold_warning
        THEN Some(EngineRecommendation(
                 calculate_priority(threshold_warning - battery, "high",
                                    FALSE),
                 "energy_dispatch", "INCREASE_CHARGING", "high"))
        ELSE IF battery < threshold_optimal_min
        THEN Some(EngineRecommendation(
                 calculate_priority(threshold_optimal_min - battery,
                                    "medium", FALSE),
                 "energy_dispatch", "OPTIMIZE_CHARGING", "medium"))
        ELSE IF battery > ENERGY_THRESHOLDS.battery_optimal_max
        THEN Some(EngineRecommendation(
                 calculate_priority(
                     battery - ENERGY_THRESHOLDS.battery_optimal_max, "low",
                     FALSE),
                 "energy_dispatch", "INCREASE_LOAD", "low"))
        ELSE None

_analyze_solar(state) ==
    LET solar == state.solar_kw
        threshold_min == ENERGY_THRESHOLDS.solar_min
    IN  IF solar < threshold_min
        THEN Some(EngineRecommendation(
                 calculate_priority(threshold_min - solar, "high", FALSE),
                 "energy_dispatch", "REDUCE_NON_ESSENTIAL_LOAD", "high"))
        ELSE None

_analyze_load(state) ==
    LET load == state.load_kw
        threshold_max == ENERGY_THRESHOLDS.load_max
        threshold_optimal_max == ENERGY_THRESHOLDS.load_optimal_max
    IN  IF load > threshold_max
        THEN Some(EngineRecommendation(
                 calculate_priority(load - threshold_max, "critical", TRUE),
                 "energy_dispatch", "REDUCE_LOAD", "critical"))
        ELSE IF load > threshold_optimal_max
        THEN Some(EngineRecommendation(
                 calculate_priority(load - threshold_optimal_max, "high",
                                    FALSE),
                 "energy_dispatch", "OPTIMIZE_LOAD", "high"))
        ELSE None

\* a reserve of exactly the minimum counted as insufficient
_analyze_energy_balance_inclusive(state) ==
    LET solar == state.solar_kw
        load == state.load_kw
        battery == state.battery_kwh
        battery_capacity == 500 * Milli
        battery_pct ==
            FracMul(FracDiv(IntFrac(battery), IntFrac(battery_capacity)),
                    IntFrac(100))
        net_power == solar - load
        reserve_ratio == FracDiv(battery_pct, IntFrac(100))
    IN  IF net_power < 0 /\
           FracLeq(reserve_ratio,
                   Frac(ENERGY_THRESHOLDS.energy_reserve_min, Milli))
        THEN Some(EngineRecommendation(
                 calculate_priority(Abs(net_power), "critical", TRUE),
                 "energy_dispatch", "EMERGENCY_LOAD_SHEDDING", "critical"))
        ELSE IF net_power < 0
        THEN Some(EngineRecommendation(
                 calculate_priority(Abs(net_power), "high", FALSE),
                 "energy_dispatch", "REDUCE_LOAD_OR_INCREASE_GENERATION",
                 "high"))
        ELSE IF net_power > 0 /\ FracLt(battery_pct, IntFrac(90))
        THEN Some(EngineRecommendation(
                 calculate_priority(net_power, "medium", FALSE),
                 "energy_dispatch", "CHARGE_BATTERY", "medium"))
        ELSE None
_analyze_energy_balance(state) ==
    LET solar == state.solar_kw
        load == state.load_kw
        battery == state.battery_kwh
        battery_capacity == 500 * Milli
        battery_pct ==
            FracMul(FracDiv(IntFrac(battery), IntFrac(battery_capacity)),
                    IntFrac(100))
        net_power == solar - load
        reserve_ratio == FracDiv(battery_pct, IntFrac(100))
    IN  IF net_power < 0 /\
           FracLt(reserve_ratio,
                  Frac(ENERGY_THRESHOLDS.energy_reserve_min, Milli))
        THEN Some(EngineRecommendation(
                 calculate_priority(Abs(net_power), "critical", TRUE),
                 "energy_dispatch", "EMERGENCY_LOAD_SHEDDING", "critical"))
        ELSE IF net_power < 0
        THEN Some(EngineRecommendation(
                 calculate_priority(Abs(net_power), "high", FALSE),
                 "energy_dispatch", "REDUCE_LOAD_OR_INCREASE_GENERATION",
                 "high"))
        ELSE IF net_power > 0 /\ FracLt(battery_pct, IntFrac(90))
        THEN Some(EngineRecommendation(
                 calculate_priority(net_power, "medium", FALSE),
                 "energy_dispatch", "CHARGE_BATTERY", "medium"))
        ELSE None

_analyze_energy_dispatch(state) ==
    Present(<<_analyze_battery(state), _analyze_solar(state),
              _analyze_load(state), _analyze_energy_balance(state)>>)

\* ties put in the reverse of the order they came in
sort_by_priority_reverse_unstable(recommendations) ==
    LET Sorted[n \in 0..Len(recommendations)] ==
            IF n = 0 THEN <<>>
            ELSE LET front == Sorted[n - 1]
                     ahead ==
                         Cardinality({i \in 1..(n - 1) :
                                         front[i].priority >
                                             recommendations[n].priority})
                 IN  SubSeq(front, 1, ahead) \o <<recommendations[n]>> \o
                     SubSeq(front, ahead + 1, n - 1)
    IN  Sorted[Len(recommendations)]

\* list.sort(key=lambda x: x.priority, reverse=True): the sort is stable,
\* also when reversed, so each element in turn goes behind the elements
\* before it whose priority is not smaller, and before the others
sort_by_priority_reverse(recommendations) ==
    LET Sorted[n \in 0..Len(recommendations)] ==
            IF n = 0 THEN <<>>
            ELSE LET front == Sorted[n - 1]
                     ahead ==
                         Cardinality({i \in 1..(n - 1) :
                                         front[i].priority >=
                                             recommendations[n].priority})
                 IN  SubSeq(front, 1, ahead) \o <<recommendations[n]>> \o
                     SubSeq(front, ahead + 1, n - 1)
    IN  Sorted[Len(recommendations)]

\* DecisionEngine.generate_recommendations; recommendations_history is
\* neither read nor written
generate_recommendations(state) ==
    sort_by_priority_reverse(_analyze_life_support(state) \o
                             _analyze_energy_dispatch(state))

----------------------------------------------------------------------------

\* the singleton SafetyLayer object, as the operations above take it
Self ==
    [pressure_history |-> pressure_history,
     radiation_history |-> radiation_history,
     active_alerts |-> active_alerts,
     pending_approvals |-> pending_approvals,
     uuid |-> uuid_counter]

\* the singleton AnomalyDetector object
Detector ==
    [pressure_stats |-> pressure_stats,
     radiation_stats |-> radiation_stats,
     battery_stats |-> battery_stats,
     history |-> history,
     uuid |-> uuid_counter]

\* the hazard an Alert was raised for, read off its message
HazardOf(alert) ==
    CASE alert.message = "PRESSURE LEAK DETECTED" -> ALERT_PRESSURE_LEAK
      [] alert.message = "CRITICAL: Pressure critically low" ->
             ALERT_PRESSURE_CRITICAL
      [] alert.message = "CRITICAL: Radiation level" ->
             ALERT_RADIATION_CRITICAL
      [] alert.message = "Radiation spike detected" -> ALERT_RADIATION_SPIKE

\* the coroutines startup_event leaves on the event loop, each about to
\* run its first statement
StartupTasks ==
    <<[coro |-> "periodic_safety_check", at |-> "sleep"],
      [coro |-> "periodic_anomaly_detection", at |-> "sleep"]>>

\* RadiationState() and AtmosphereState(), the fields a scenario writes:
\* radiation_level in 0.01 mSv/day, shielding_effectiveness in 0.01 %,
\* pressure in 0.01 psi, co2_level in 0.0001 %
RadiationState_init ==
    [radiation_level |-> 50, shielding_effectiveness |-> 9500]
AtmosphereState_init == [pressure |-> 1470, co2_level |-> 400]

\* the SensorSimulator object.  The sub-states of current_state are
\* objects that are written in place; shared names the ones that are the
\* very objects the engine's original_state holds, so that a write to one
\* is seen through the other.
SensorSimulator_init ==
    [current_state |-> [radiation |-> RadiationState_init,
                        atmosphere |-> AtmosphereState_init],
     shared |-> {}]

\* ScenarioEngine.__init__; original_state is the copy of current_state,
\* _scenario_task the place of the task in scenario_tasks
ScenarioEngine_init ==
    [active_scenario |-> None,
     scenario_start_time |-> None,
     scenario_duration |-> 0,
     original_state |-> None,
     _scenario_task |-> None]
\* the state after construction, but for the telemetry the simulator holds
InitApp ==
    /\ now = 0
    /\ uuid_counter = SafetyLayer_init.uuid
    /\ pressure_history = SafetyLayer_init.pressure_history
    /\ radiation_history = SafetyLayer_init.radiation_history
    /\ active_alerts = SafetyLayer_init.active_alerts
    /\ pending_approvals = SafetyLayer_init.pending_approvals
    /\ ret_alerts = <<>>
    /\ ret_recommendations = <<>>
    /\ calls = 0
    /\ emitted_alerts = <<>>
    /\ emitted_recs = <<>>
    /\ in_flight = {}
    /\ approve_runs = 0
    /\ approve_response = None
    /\ approve_tally = EmptyDict
    /\ pressure_stats = AnomalyDetector_init.pressure_stats
    /\ radiation_stats = AnomalyDetector_init.radiation_stats
    /\ battery_stats = AnomalyDetector_init.battery_stats
    /\ history = AnomalyDetector_init.history
    /\ ret_anomalies = <<>>
    /\ detect_calls = 0
    /\ fed = [m \in Metrics |-> <<>>]
    /\ telemetry = [last |-> None, changes |-> 0]
    /\ reset_runs = 0
    /\ reset_response = None
    /\ direct_calls = <<>>
    /\ ret_ranked = None
    /\ decision_calls = 0
    /\ decisions_response = None
    /\ priority_calls = <<>>
    /\ alerts_db = <<>>
    /\ recommendations_db = <<>>
    /\ audit_log = <<>>
    /\ audit_log_db = <<>>
    /\ safety_task = "running"
    /\ anomaly_task = "running"
    /\ cycle_errors = [safety |-> 0, anomaly |-> 0]
    /\ loop_running = None
    /\ coroutines = StartupTasks
    /\ evaluating = [safety |-> {}, anomaly |-> {}]
    /\ simulator = SensorSimulator_init
    /\ scenario_engine = ScenarioEngine_init
    /\ scenario_tasks = <<>>
    /\ scenario_response = None

Init ==
    /\ InitApp
    /\ settlement = SettlementState_init

\* time passes between two steps of the event loop
Tick ==
    /\ now' = now + 1
    /\ UNCHANGED <<layerVars, checkVars, approveVars, anomalyVars, appVars>>

\* one run of SafetyLayer.check_safety on the singleton, with its results
RunCheckSafety(pressure_kpa, radiation_msv_hr) ==
    \E res \in {check_safety(Self, [pressure_kpa |-> pressure_kpa,
                                    radiation_msv_hr |-> radiation_msv_hr],
                             now)} :
        /\ pressure_history' = res.self.pressure_history
        /\ radiation_history' = res.self.radiation_history
        /\ active_alerts' = res.self.active_alerts
        /\ pending_approvals' = res.self.pending_approvals
        /\ uuid_counter' = res.self.uuid
        /\ ret_alerts' = res.alerts
        /\ ret_recommendations' = res.recommendations
        /\ calls' = calls + 1
        /\ emitted_alerts' =
               emitted_alerts \o
               [i \in 1..Len(res.alerts) |-> HazardOf(res.alerts[i])]
        /\ emitted_recs' =
               emitted_recs \o
               [i \in 1..Len(res.recommendations) |->
                    res.recommendations[i].id]

\* a task whose try is around its loop, not inside it
while_true_try_around(raised) == IF raised THEN "ended" ELSE "running"

\* where one pass through `while True: try: ... except Exception as e:
\* print(...)` leaves the task, whether or not a statement of the body
\* raised: at the head of the loop
while_true_try(raised) == "running"

\* the body of the periodic task's loop, from the wake-up to the next
\* sleep: it has no await, so the event loop runs it in one step.
\* raising is None, or Some of the place where a statement of the body
\* raises an Exception: "telemetry", the read and conversion of the
\* telemetry before check_safety; "alerts_db", the runtime import before
\* the alerts are stored; "recommendations_db", the one before the
\* recommendations are.  The imports are reached only with something to
\* store.
periodic_safety_check_body(pressure_kpa, radiation_msv_hr, raising) ==
    /\ safety_task = "running"
    /\ IF raising = Some("telemetry")
       THEN /\ UNCHANGED <<layerVars, checkVars, storeVars>>
            /\ safety_task' = while_true_try(TRUE)
            /\ cycle_errors' = [cycle_errors EXCEPT !.safety = @ + 1]
       ELSE /\ RunCheckSafety(pressure_kpa, radiation_msv_hr)
            /\ LET at_alerts ==
                       raising = Some("alerts_db") /\ ret_alerts' # <<>>
                   at_recommendations ==
                       /\ raising = Some("recommendations_db")
                       /\ ret_recommendations' # <<>>
                   raised == at_alerts \/ at_recommendations
               IN  /\ alerts_db' =
                          IF at_alerts THEN alerts_db
                          ELSE alerts_db \o ret_alerts'
                   /\ recommendations_db' =
                          IF raised THEN recommendations_db
                          ELSE recommendations_db \o ret_recommendations'
                   /\ safety_task' = while_true_try(raised)
                   /\ cycle_errors' =
                          IF raised
                          THEN [cycle_errors EXCEPT !.safety = @ + 1]
                          ELSE cycle_errors
    /\ UNCHANGED <<now, approveVars, anomalyVars, direct_calls, decisionVars,
                   auditVars, anomaly_task, scenarioVars>>

\* one cycle of the periodic task, seen as a single step of the program
periodic_safety_check(pressure_kpa, radiation_msv_hr, raising) ==
    /\ periodic_safety_check_body(pressure_kpa, radiation_msv_hr, raising)
    /\ UNCHANGED loopVars

\* the body of the POST /safety/check handler, after its dependencies are
\* resolved: it returns the alerts and recommendations in its response and
\* stores none of them
post_safety_check_body(pressure_kpa, radiation_msv_hr) ==
    /\ RunCheckSafety(pressure_kpa, radiation_msv_hr)
    /\ UNCHANGED <<now, approveVars, anomalyVars, direct_calls, decisionVars,
                   storeVars, auditVars, taskVars, scenarioVars>>

\* POST /safety/check, seen as a single step of the program
post_safety_check(pressure_kpa, radiation_msv_hr) ==
    /\ post_safety_check_body(pressure_kpa, radiation_msv_hr)
    /\ UNCHANGED loopVars

\* a POST /safety/approve/{id} request arrives; its handler has not run
SubmitApprove(recommendation_id, approved_by) ==
    /\ [id |-> recommendation_id, by |-> approved_by] \notin in_flight
    /\ in_flight' =
           in_flight \cup {[id |-> recommendation_id, by |-> approved_by]}
    /\ UNCHANGED <<now, layerVars, checkVars, approve_runs,
                   approve_response, approve_tally, anomalyVars, appVars>>

\* what is known of the handler runs for one id: how many reached
\* approve_action, how many of those returned true, whether one of them ran
\* while another request for the id was in flight, and the run that won
NoRuns == [runs |-> 0, granted |-> 0, raced |-> FALSE, winner |-> None]

Tally(id) ==
    IF id \in DOMAIN approve_tally THEN approve_tally[id] ELSE NoRuns

\* the handler of POST /safety/approve/{id}: it has no await, so the event
\* loop runs it to completion in one step
post_approve_action(req) ==
    /\ req \in in_flight
    /\ in_flight' = in_flight \ {req}
    /\ approve_runs' = approve_runs + 1
    /\ LET concurrent == \E o \in in_flight \ {req} : o.id = req.id
       IN  IF req.by = ""
           THEN /\ approve_response' =
                       Some([id |-> req.id, by |-> req.by, called |-> FALSE,
                             ok |-> FALSE, status |-> 400, at |-> now])
                /\ UNCHANGED <<pending_approvals, approve_tally>>
           ELSE LET res == approve_action(Self, req.id, req.by, now)
                    old == Tally(req.id)
                IN  /\ pending_approvals' = res.self.pending_approvals
                    /\ approve_response' =
                           Some([id |-> req.id, by |-> req.by,
                                 called |-> TRUE, ok |-> res.ok,
                                 status |-> IF res.ok THEN 200 ELSE 400,
                                 at |-> now])
                    /\ approve_tally' =
                           DictSet(approve_tally, req.id,
                                   [runs |-> old.runs + 1,
                                    granted |-> old.granted +
                                                (IF res.ok THEN 1 ELSE 0),
                                    raced |-> old.raced \/ concurrent,
                                    winner |->
                                        IF res.ok
                                        THEN Some([by |-> req.by, at |-> now])
                                        ELSE old.winner])
    /\ UNCHANGED <<now, pressure_history, radiation_history, active_alerts,
                   checkVars, anomalyVars, appVars>>

\* the Alert the cycle and the handler build from an AnomalyAlert; the
\* message is the AnomalyAlert's, a text the model does not hold
AlertOfAnomaly(anomaly_alert) ==
    Alert(anomaly_alert.id, anomaly_alert.severity,
          CASE anomaly_alert.metric = "pressure" -> "anomaly_pressure"
            [] anomaly_alert.metric = "radiation" -> "anomaly_radiation"
            [] anomaly_alert.metric = "battery" -> "anomaly_battery",
          "anomaly detected", anomaly_alert.metric)

\* one run of AnomalyDetector.detect_anomalies on the singleton, with its
\* results; a snapshot is <<pressure, radiation, battery>>
RunDetectAnomalies(snapshot) ==
    \E res \in {detect_anomalies(Detector, snapshot[1], snapshot[2],
                                snapshot[3], now)} :
        /\ pressure_stats' = res.self.pressure_stats
        /\ radiation_stats' = res.self.radiation_stats
        /\ battery_stats' = res.self.battery_stats
        /\ history' = res.self.history
        /\ uuid_counter' = res.self.uuid
        /\ ret_anomalies' = res.alerts
        /\ detect_calls' = detect_calls + 1
        /\ fed' = [pressure |-> Append(fed.pressure, snapshot[1]),
                   radiation |-> Append(fed.radiation, snapshot[2]),
                   battery |-> Append(fed.battery, snapshot[3])]
        /\ telemetry' =
               [last |-> Some(snapshot),
                changes |-> IF IsNone(telemetry.last) \/
                               telemetry.last = Some(snapshot)
                            THEN telemetry.changes
                            ELSE telemetry.changes + 1]

\* the body of the periodic anomaly task's loop, from the wake-up to the
\* next sleep
periodic_anomaly_detection_body(snapshot, raising) ==
    /\ anomaly_task = "running"
    /\ IF raising = Some("telemetry")
       THEN /\ UNCHANGED <<detectorVars, uuid_counter, ret_anomalies,
                           detect_calls, fed, telemetry, alerts_db>>
            /\ anomaly_task' = while_true_try(TRUE)
            /\ cycle_errors' = [cycle_errors EXCEPT !.anomaly = @ + 1]
       ELSE /\ RunDetectAnomalies(snapshot)
            /\ LET raised ==
                       raising = Some("alerts_db") /\ ret_anomalies' # <<>>
               IN  /\ alerts_db' =
                          IF raised THEN alerts_db
                          ELSE alerts_db \o
                               [i \in 1..Len(ret_anomalies') |->
                                    AlertOfAnomaly(ret_anomalies'[i])]
                   /\ anomaly_task' = while_true_try(raised)
                   /\ cycle_errors' =
                          IF raised
                          THEN [cycle_errors EXCEPT !.anomaly = @ + 1]
                          ELSE cycle_errors
    /\ UNCHANGED <<now, layerVars, ret_alerts, ret_recommendations, calls,
                   emitted_alerts, emitted_recs, approveVars, reset_runs,
                   reset_response, direct_calls, decisionVars,
                   recommendations_db, auditVars, safety_task,
                   scenarioVars>>

\* one cycle of the periodic anomaly task, seen as a single step
periodic_anomaly_detection(snapshot, raising) ==
    /\ periodic_anomaly_detection_body(snapshot, raising)
    /\ UNCHANGED loopVars

\* the body of the POST /anomaly/detect handler
post_anomaly_detect_body(snapshot) ==
    /\ RunDetectAnomalies(snapshot)
    /\ alerts_db' = alerts_db \o [i \in 1..Len(ret_anomalies') |->
                                      AlertOfAnomaly(ret_anomalies'[i])]
    /\ UNCHANGED <<now, layerVars, ret_alerts, ret_recommendations, calls,
                   emitted_alerts, emitted_recs, approveVars, reset_runs,
                   reset_response, direct_calls, decisionVars,
                   recommendations_db, auditVars, taskVars, scenarioVars>>

\* POST /anomaly/detect, seen as a single step
post_anomaly_detect(snapshot) ==
    /\ post_anomaly_detect_body(snapshot)
    /\ UNCHANGED loopVars

\* the event loop.  A coroutine is a periodic task or the handler of one
\* request; at is the statement it runs next: the await it starts with
\* ("sleep" in a periodic task, "depends", the handler's dependencies, which
\* FastAPI resolves in its thread pool), the call of the component's
\* evaluation ("call"), the return from it together with the statements
\* after it ("return"), and "done" in a handler that has responded.

\* a coroutine that hands the loop back inside the evaluation as well
awaits_inside(statement) == statement \in {"sleep", "depends", "call"}

\* the statements at which a coroutine hands the loop back to the event
\* loop: check_safety and detect_anomalies are plain functions without an
\* await
awaits(statement) == statement \in {"sleep", "depends"}

\* the component a coroutine evaluates
ComponentOf(coro) ==
    IF coro \in {"periodic_safety_check", "check_safety"}
    THEN "safety" ELSE "anomaly"

\* a request arrives and the server creates the coroutine of its handler
CreateHandler(coro) ==
    /\ coroutines' = Append(coroutines, [coro |-> coro, at |-> "depends"])
    /\ UNCHANGED <<now, layerVars, checkVars, approveVars, anomalyVars,
                   direct_calls, decisionVars, storeVars, auditVars,
                   taskVars, loop_running, evaluating, scenarioVars>>

\* the loop is free and gives a coroutine its turn
Resume(c) ==
    /\ IsNone(loop_running)
    /\ coroutines[c].at # "done"
    /\ loop_running' = Some(c)
    /\ UNCHANGED <<now, layerVars, checkVars, approveVars, anomalyVars,
                   direct_calls, decisionVars, storeVars, auditVars,
                   taskVars, coroutines, evaluating, scenarioVars>>

\* the running coroutine keeps the loop unless the statement it ran awaits
AfterStatement(c, statement) ==
    IF awaits(statement) THEN None ELSE Some(c)

\* the running coroutine starts its await: the sleep or the dependencies
Await(c) ==
    /\ loop_running = Some(c)
    /\ coroutines[c].at \in {"sleep", "depends"}
    /\ coroutines' = [coroutines EXCEPT ![c].at = "call"]
    /\ loop_running' = AfterStatement(c, coroutines[c].at)
    /\ UNCHANGED <<now, layerVars, checkVars, approveVars, anomalyVars,
                   direct_calls, decisionVars, storeVars, auditVars,
                   taskVars, evaluating, scenarioVars>>

\* the running coroutine calls its component's evaluation
Call(c) ==
    /\ loop_running = Some(c)
    /\ coroutines[c].at = "call"
    /\ coroutines' = [coroutines EXCEPT ![c].at = "return"]
    /\ evaluating' =
           [evaluating EXCEPT ![ComponentOf(coroutines[c].coro)] =
                                  @ \cup {c}]
    /\ loop_running' = AfterStatement(c, "call")
    /\ UNCHANGED <<now, layerVars, checkVars, approveVars, anomalyVars,
                   direct_calls, decisionVars, storeVars, auditVars,
                   taskVars, scenarioVars>>

\* the evaluation returns to the running coroutine, which goes on to its
\* next await: the next sleep in a periodic task, the response in a handler
Return(c) ==
    /\ loop_running = Some(c)
    /\ coroutines[c].at = "return"
    /\ evaluating' =
           [evaluating EXCEPT ![ComponentOf(coroutines[c].coro)] =
                                  @ \ {c}]
    /\ IF coroutines[c].coro \in {"check_safety", "detect_anomalies"}
       THEN /\ coroutines' = [coroutines EXCEPT ![c].at = "done"]
            /\ loop_running' = None
       ELSE /\ coroutines' = [coroutines EXCEPT ![c].at = "sleep"]
            /\ loop_running' = Some(c)

\* the four coroutines at the return of their evaluation
ReturnToSafetyTask(c, pressure_kpa, radiation_msv_hr) ==
    /\ coroutines[c].coro = "periodic_safety_check"
    /\ Return(c)
    /\ periodic_safety_check_body(pressure_kpa, radiation_msv_hr, None)

ReturnToSafetyHandler(c, pressure_kpa, radiation_msv_hr) ==
    /\ coroutines[c].coro = "check_safety"
    /\ Return(c)
    /\ post_safety_check_body(pressure_kpa, radiation_msv_hr)

ReturnToAnomalyTask(c, snapshot) ==
    /\ coroutines[c].coro = "periodic_anomaly_detection"
    /\ Return(c)
    /\ periodic_anomaly_detection_body(snapshot, None)

ReturnToAnomalyHandler(c, snapshot) ==
    /\ coroutines[c].coro = "detect_anomalies"
    /\ Return(c)
    /\ post_anomaly_detect_body(snapshot)

\* AuditLogger.log: the entry appended to the audit file as one JSON line.
\* The details are a free text the model does not hold.
AuditLogger_log(user, action, resource, status, t) ==
    [timestamp |-> t, user |-> user, action |-> action,
     resource |-> resource, status |-> status]

\* log_audit_event: the entry goes to the audit file and, under a fresh
\* id, to audit_log_db
log_audit_event(user, action, resource, status) ==
    LET file_entry == AuditLogger_log(user, action, resource, status, now)
    IN  /\ audit_log' = Append(audit_log, file_entry)
        /\ uuid_counter' = uuid_counter + 1
        /\ audit_log_db' =
               Append(audit_log_db,
                      [id |-> uuid_counter + 1,
                       timestamp |-> file_entry.timestamp,
                       user |-> user, action |-> action,
                       resource |-> resource, status |-> status])

\* POST /audit-log; each query parameter is None or Some(text).  A request
\* without an action, a resource or a status, or with a status outside the
\* three known ones, is answered 400 and logs nothing.
create_audit_log_entry(user, action, resource, status) ==
    LET truthy(x) == ~IsNone(x) /\ Get(x) # ""
    IN  /\ IF /\ truthy(action) /\ truthy(resource) /\ truthy(status)
              /\ Get(status) \in {"success", "failure", "pending"}
           THEN log_audit_event(user, Get(action), Get(resource),
                                Get(status))
           ELSE UNCHANGED <<uuid_counter, auditVars>>
        /\ UNCHANGED <<now, layerVars, ret_alerts, ret_recommendations,
                       calls, emitted_alerts, emitted_recs, approveVars,
                       anomalyVars, direct_calls, decisionVars, storeVars,
                       taskVars, loopVars, scenarioVars>>

\* POST /anomaly/reset; metric is None or Some(name)
reset_anomaly_statistics(metric) ==
    LET truthy == ~IsNone(metric) /\ Get(metric) # ""
        res == reset_statistics(Detector, metric)
        status == IF truthy /\ Get(metric) \notin Metrics THEN 400
                  ELSE IF res.raised THEN 500 ELSE 200
    IN  \E after \in {IF status = 200 THEN res.self ELSE Detector} :
        /\ pressure_stats' = after.pressure_stats
        /\ radiation_stats' = after.radiation_stats
        /\ battery_stats' = after.battery_stats
        /\ history' = after.history
        /\ fed' = [m \in Metrics |->
                      IF status = 200 /\ (IsNone(metric) \/ metric = Some(m))
                      THEN <<>> ELSE fed[m]]
        /\ reset_runs' = reset_runs + 1
        /\ reset_response' = Some([metric |-> metric, status |-> status])
        /\ UNCHANGED <<now, layerVars, checkVars, approveVars, ret_anomalies,
                       detect_calls, telemetry, appVars>>

\* a direct call of update_metric on the singleton by a caller in the
\* process
call_update_metric(metric_name, value) ==
    \E res \in {update_metric(Detector, metric_name, value)} :
        /\ pressure_stats' = res.self.pressure_stats
        /\ radiation_stats' = res.self.radiation_stats
        /\ battery_stats' = res.self.battery_stats
        /\ history' = res.self.history
        /\ fed' = [m \in Metrics |->
                      IF m = metric_name /\ ~res.raised
                      THEN Append(fed[m], value) ELSE fed[m]]
        /\ direct_calls' =
               Append(direct_calls, [op |-> "update_metric",
                                     metric_name |-> Some(metric_name),
                                     raised |-> res.raised])
        /\ UNCHANGED <<now, layerVars, checkVars, approveVars, ret_anomalies,
                       detect_calls, telemetry, reset_runs, reset_response,
                       decisionVars, storeVars, auditVars, taskVars,
                       loopVars, scenarioVars>>

\* a direct call of reset_statistics on the singleton; metric_name is None
\* or Some(name)
call_reset_statistics(metric_name) ==
    \E res \in {reset_statistics(Detector, metric_name)} :
        /\ pressure_stats' = res.self.pressure_stats
        /\ radiation_stats' = res.self.radiation_stats
        /\ battery_stats' = res.self.battery_stats
        /\ history' = res.self.history
        /\ fed' = [m \in Metrics |->
                      IF ~res.raised /\
                         (IsNone(metric_name) \/ metric_name = Some(m))
                      THEN <<>> ELSE fed[m]]
        /\ direct_calls' =
               Append(direct_calls, [op |-> "reset_statistics",
                                     metric_name |-> metric_name,
                                     raised |-> res.raised])
        /\ UNCHANGED <<now, layerVars, checkVars, approveVars, ret_anomalies,
                       detect_calls, telemetry, reset_runs, reset_response,
                       decisionVars, storeVars, auditVars, taskVars,
                       loopVars, scenarioVars>>

\* a handler whose engine resets the load of the state it was given
get_recommendations_shedding(category, min_priority) ==
    \E recommendations \in {generate_recommendations(settlement)} :
        /\ ret_ranked' = Some(recommendations)
        /\ decision_calls' = decision_calls + 1
        /\ decisions_response' =
               Some([status |-> "success", count |-> Len(recommendations),
                     recommendations |-> recommendations])
        /\ settlement' = [settlement EXCEPT !.load_kw = 0]
        /\ UNCHANGED <<now, layerVars, checkVars, approveVars,
                       anomalyVars, direct_calls, priority_calls,
                       storeVars, auditVars, taskVars, loopVars,
                       scenarioVars>>

\* GET /decisions/recommendations, and with a category the two routes that
\* delegate to it; category is None or Some(name).  The telemetry read and
\* its conversion give the state the simulator holds.
get_recommendations(category, min_priority) ==
    \E recommendations \in {generate_recommendations(settlement)} :
        LET of_category ==
                IF IsNone(category) \/ category = Some("")
                THEN recommendations
                ELSE SelectSeq(recommendations,
                               LAMBDA r : Some(r.category) = category)
            filtered ==
                SelectSeq(of_category,
                          LAMBDA r : r.priority >= min_priority)
        IN  /\ ret_ranked' = Some(recommendations)
            /\ decision_calls' = decision_calls + 1
            /\ decisions_response' =
                   Some([status |-> "success", count |-> Len(filtered),
                         recommendations |-> filtered])
            /\ UNCHANGED <<now, layerVars, checkVars, approveVars,
                           anomalyVars, direct_calls, settlement,
                           priority_calls, storeVars, auditVars, taskVars,
                       loopVars, scenarioVars>>

\* a direct call of the module's calculate_priority
call_calculate_priority(deviation_from_threshold, impact_level, flag_critical) ==
    /\ priority_calls' =
           Append(priority_calls,
                  [deviation_from_threshold |-> deviation_from_threshold,
                   impact_level |-> impact_level,
                   is_critical |-> flag_critical,
                   priority |-> calculate_priority(deviation_from_threshold,
                                                   impact_level,
                                                   flag_critical)])
    /\ UNCHANGED <<now, layerVars, checkVars, approveVars, anomalyVars,
                   direct_calls, settlement, ret_ranked, decision_calls,
                   decisions_response, storeVars, auditVars, taskVars,
                       loopVars, scenarioVars>>

----------------------------------------------------------------------------
(* The scenario engine *)

\* what the scenario engine, its tasks and the simulator's loop leave alone
besideScenarios == <<layerVars, checkVars, approveVars, anomalyVars,
                     direct_calls, decisionVars, storeVars, audit_log_db,
                     taskVars, loopVars>>

\* the sub-state of the simulator a scenario writes and restores
SubStateOf(scenario) ==
    IF scenario = "radiation_storm" THEN "radiation" ELSE "atmosphere"

\* the simulator and the engine after an assignment to the fields of one
\* sub-state object of current_state
WriteInPlace(sim, engine, field, value) ==
    [simulator |-> [sim EXCEPT !.current_state[field] = value],
     scenario_engine |->
         IF field \in sim.shared
         THEN [engine EXCEPT
                   !.original_state = Some([Get(@) EXCEPT ![field] = value])]
         ELSE engine]

\* SensorSimulator._update_sensors: once a second the loop overwrites the
\* readings in place
update_sensors(radiation, atmosphere) ==
    \E first \in {WriteInPlace(simulator, scenario_engine, "radiation",
                               radiation)} :
    \E second \in {WriteInPlace(first.simulator, first.scenario_engine,
                                "atmosphere", atmosphere)} :
        /\ simulator' = second.simulator
        /\ scenario_engine' = second.scenario_engine
        /\ UNCHANGED <<now, besideScenarios, audit_log, scenario_tasks,
                       scenario_response>>

\* ScenarioEngine.run_radiation_storm_scenario and
\* run_pressure_leak_scenario, which differ in the scenario's name and its
\* task, under the handler of POST /scenarios/radiation-storm or
\* /scenarios/pressure-leak: an active scenario makes the engine raise
\* ValueError, which the handler answers with 400.  A task remembers, for
\* the properties, the values its sub-state had when it was created
\* (snapshot) and the ones it left behind when it ended (left).  The deep
\* copy shares no object with current_state.
start_scenario(scenario, duration_seconds) ==
    /\ IF ~IsNone(scenario_engine.active_scenario)
       THEN /\ scenario_response' =
                   Some([status |-> "400", scenario |-> scenario])
            /\ UNCHANGED <<simulator, scenario_engine, scenario_tasks,
                           audit_log>>
       ELSE     /\ scenario_engine' =
                       [active_scenario |-> Some(scenario),
                        scenario_start_time |-> Some(now),
                        scenario_duration |-> duration_seconds,
                        original_state |-> Some(simulator.current_state),
                        _scenario_task |-> Some(Len(scenario_tasks) + 1)]
                /\ simulator' = [simulator EXCEPT !.shared = {}]
                /\ scenario_tasks' =
                       Append(scenario_tasks,
                              [scenario |-> scenario,
                               duration_seconds |-> duration_seconds,
                               at |-> "created",
                               must_cancel |-> FALSE,
                               start_time |-> None,
                               initial_pressure |-> None,
                               snapshot |->
                                   simulator.current_state[
                                       SubStateOf(scenario)],
                               left |-> None])
                /\ audit_log' =
                       audit_log \o
                       <<AuditLogger_log("system", "SCENARIO_START",
                                         "sensor_simulator", "success",
                                         now),
                         AuditLogger_log("api_user", "START_SCENARIO",
                                         scenario, "success", now)>>
                /\ scenario_response' =
                       Some([status |-> "started", scenario |-> scenario])
    /\ UNCHANGED <<now, besideScenarios>>

\* `if self._scenario_task and not self._scenario_task.done():
\* self._scenario_task.cancel()`: the request reaches the task at its next
\* step
cancel_if_running(engine, tasks) ==
    IF ~IsNone(engine._scenario_task)
       /\ tasks[Get(engine._scenario_task)].at # "done"
    THEN [tasks EXCEPT ![Get(engine._scenario_task)].must_cancel = TRUE]
    ELSE tasks

\* ScenarioEngine.stop_scenario under the handler of POST /scenarios/stop,
\* which logs its own entry whatever the result
stop_scenario ==
    /\ scenario_tasks' = cancel_if_running(scenario_engine, scenario_tasks)
    /\ IF ~IsNone(scenario_engine.active_scenario)
       THEN /\ scenario_engine' =
                   [scenario_engine EXCEPT !.active_scenario = None,
                                           !.scenario_start_time = None]
            /\ audit_log' =
                   audit_log \o
                   <<AuditLogger_log("system", "SCENARIO_STOP",
                                     "sensor_simulator", "success", now),
                     AuditLogger_log("api_user", "STOP_SCENARIO",
                                     "scenario_engine", "success", now)>>
            /\ scenario_response' =
                   Some([status |-> "stopped",
                         scenario |->
                             Get(scenario_engine.active_scenario)])
       ELSE /\ scenario_engine' = scenario_engine
            /\ audit_log' =
                   Append(audit_log,
                          AuditLogger_log("api_user", "STOP_SCENARIO",
                                          "scenario_engine", "success",
                                          now))
            /\ scenario_response' =
                   Some([status |-> "no_scenario_running",
                         scenario |-> "none"])
    /\ UNCHANGED <<now, besideScenarios, simulator>>

\* the radiation state _execute_radiation_storm writes after elapsed
\* minutes of a storm of duration minutes: 0.02 mSv/hr at the start, the
\* peak of 2.0 mSv/hr after one minute, times 24 for the level per day;
\* the shielding is max(70, 95 - radiation / peak * 25).  The decline after
\* the peak starts at the peak itself, which is as far as a storm of the
\* durations modelled gets before it ends.
StormReading(elapsed, duration) ==
    CASE elapsed = 0 ->
             [radiation_level |-> 48, shielding_effectiveness |-> 9475]
      [] elapsed = 1 /\ duration > 1 ->
             [radiation_level |-> 4800, shielding_effectiveness |-> 7000]

\* the atmosphere _execute_pressure_leak writes: the pressure
\* max(10, P0 * exp(-0.02 * minutes)), exp(-0.02) being 0.9802 and the
\* result rounded to 0.01 psi, and after the first half minute the CO2
\* level min(0.1, 0.04 + (seconds - 30) / 60 * 0.01)
LeakReading(atmosphere, initial_pressure, elapsed) ==
    LET current_pressure ==
            IF elapsed = 0 THEN initial_pressure
            ELSE (initial_pressure * 9802 + 5000) \div 10000
        pressure ==
            IF current_pressure < 1000 THEN 1000 ELSE current_pressure
    IN  CASE elapsed = 0 -> [atmosphere EXCEPT !.pressure = pressure]
          [] elapsed = 1 -> [pressure |-> pressure, co2_level |-> 450]

\* a finally clause that restores the sub-state and leaves the engine's
\* fields as they are
ScenarioFinally_restoring(k) ==
    LET task == scenario_tasks[k]
        field == SubStateOf(task.scenario)
        restored ==
            IF ~IsNone(scenario_engine.original_state)
            THEN [current_state |->
                      [simulator.current_state EXCEPT
                           ![field] =
                               Get(scenario_engine.original_state)[field]],
                  shared |-> simulator.shared \cup {field}]
            ELSE simulator
    IN  /\ simulator' = restored
        /\ scenario_engine' = scenario_engine
        /\ audit_log' =
               Append(audit_log,
                      AuditLogger_log("system", "SCENARIO_END",
                                      "sensor_simulator", "success", now))
        /\ scenario_tasks' =
               [scenario_tasks EXCEPT
                    ![k].at = "done",
                    ![k].left = Some(restored.current_state[field])]

\* the finally clause of a scenario task: the sub-state is set to the one
\* original_state holds (the object itself, not a copy), the engine shows
\* no scenario, and the end is logged
ScenarioFinally(k) ==
    LET task == scenario_tasks[k]
        field == SubStateOf(task.scenario)
        restored ==
            IF ~IsNone(scenario_engine.original_state)
            THEN [current_state |->
                      [simulator.current_state EXCEPT
                           ![field] =
                               Get(scenario_engine.original_state)[field]],
                  shared |-> simulator.shared \cup {field}]
            ELSE simulator
    IN  /\ simulator' = restored
        /\ scenario_engine' =
               [scenario_engine EXCEPT !.active_scenario = None,
                                       !.scenario_start_time = None]
        /\ audit_log' =
               Append(audit_log,
                      AuditLogger_log("system", "SCENARIO_END",
                                      "sensor_simulator", "success", now))
        /\ scenario_tasks' =
               [scenario_tasks EXCEPT
                    ![k].at = "done",
                    ![k].left = Some(restored.current_state[field])]

\* one step of a scenario task, from one await to the next.  A task
\* cancelled before its first step ends without running any of its body; a
\* task cancelled in its sleep gets CancelledError there and goes through
\* except and finally; otherwise the task (at its first step after reading
\* the clock and, in a leak, the pressure) tests the time elapsed, and
\* either leaves the loop for the finally clause or writes the readings
\* and sleeps a second.
scenario_task_step(k) ==
    LET task == scenario_tasks[k]
        first == task.at = "created"
        start_time == IF first THEN now ELSE Get(task.start_time)
        initial_pressure ==
            IF first THEN simulator.current_state.atmosphere.pressure
            ELSE Get(task.initial_pressure)
        elapsed == now - start_time
    IN  /\ task.at # "done"
        /\ IF task.must_cancel /\ first
           THEN /\ scenario_tasks' = [scenario_tasks EXCEPT ![k].at = "done"]
                /\ UNCHANGED <<simulator, scenario_engine, audit_log>>
           ELSE IF task.must_cancel \/ elapsed >= task.duration_seconds
           THEN ScenarioFinally(k)
           ELSE \E written \in
                    {IF task.scenario = "radiation_storm"
                     THEN WriteInPlace(simulator, scenario_engine,
                                       "radiation",
                                       StormReading(elapsed,
                                                    task.duration_seconds))
                     ELSE WriteInPlace(simulator, scenario_engine,
                                       "atmosphere",
                                       LeakReading(
                                           simulator.current_state.atmosphere,
                                           initial_pressure, elapsed))} :
                    /\ simulator' = written.simulator
                    /\ scenario_engine' = written.scenario_engine
                    /\ scenario_tasks' =
                           [scenario_tasks EXCEPT
                                ![k].at = "sleeping",
                                ![k].start_time = Some(start_time),
                                ![k].initial_pressure =
                                    Some(initial_pressure)]
                    /\ UNCHANGED audit_log
        /\ UNCHANGED <<now, besideScenarios, scenario_response>>

----------------------------------------------------------------------------
(* Inputs and specifications *)

\* pressure_kpa values: nominal; 90, which is the critical boundary and,
\* after 100, a leak within 4 minutes and exactly -2.0 %/min over 5; and 0,
\* which is critical and, as the oldest reading, leaves the rate undefined
PressureInputs == {100, 90, 0}

\* radiation values in 0.01 mSv/hr: background, a raised level, a spike
\* below the critical level, the critical boundary
RadiationInputs == {0, 10, 45, 50}

NominalPressure == 101
NominalRadiation == 2

Approvers == {"alice", "bob"}

\* an id that no uuid4() call has returned
UnknownId == SafetyLayer_init.uuid

\* pressure hazards alone, under the periodic safety cycles
NextPressure ==
    \/ now < MaxPressureTime /\ Tick
    \/ \E p \in PressureInputs :
           /\ calls < MaxPressureCalls
           /\ periodic_safety_check(p, NominalRadiation, None)

SpecPressure == Init /\ [][NextPressure]_vars

\* radiation hazards alone
NextRadiation ==
    \/ \E r \in RadiationInputs :
           /\ calls < MaxRadiationCalls
           /\ periodic_safety_check(NominalPressure, r, None)
    \/ \E r \in RadiationInputs :
           /\ calls < MaxRadiationCalls
           /\ post_safety_check(NominalPressure, r)

SpecRadiation == Init /\ [][NextRadiation]_vars

\* snapshots <<pressure_kpa, radiation_msv_hr>>: all nominal, low pressure,
\* raised radiation, both critical
HazardInputs == {<<100, 0>>, <<88, 0>>, <<100, 45>>, <<88, 50>>}

\* the four hazards together
NextHazards ==
    \/ now < MaxHazardTime /\ Tick
    \/ \E s \in HazardInputs :
           calls < MaxHazardCalls /\ periodic_safety_check(s[1], s[2], None)
    \/ \E s \in HazardInputs :
           calls < MaxHazardCalls /\ post_safety_check(s[1], s[2])

SpecHazards == Init /\ [][NextHazards]_vars

\* the snapshot <<pressure_kpa, radiation_msv_hr>> of the safety cycles that
\* run beside the approvals: it raises two hazards, so two PendingApproval
\* entries, in one call
ApprovalInputs == {<<88, 50>>}

\* the approval gate, with the periodic safety cycles running beside it
NextApproval ==
    \/ now < MaxApprovalTime /\ Tick
    \/ \E s \in ApprovalInputs :
           /\ calls < MaxApprovalCycles
           /\ periodic_safety_check(s[1], s[2], None)
    \/ \E id \in DOMAIN pending_approvals \cup {UnknownId},
          by \in Approvers \cup {""} :
           /\ Cardinality(in_flight) + approve_runs < MaxApproveCalls
           /\ SubmitApprove(id, by)
    \/ \E req \in in_flight : post_approve_action(req)

SpecApproval == Init /\ [][NextApproval]_vars

\* the telemetry fed to the detector is piecewise constant: the snapshot
\* may differ from the one before it only a bounded number of times
MayFeed(snapshot, max_changes) ==
    \/ IsNone(telemetry.last)
    \/ telemetry.last = Some(snapshot)
    \/ telemetry.changes < max_changes

\* snapshots <<pressure, radiation, battery>>: the nominal level (101.325
\* kPa, 0.02 mSv/hr, 500 kWh), a small step away from it (to 110.0 kPa) and
\* a larger step the same way; the steps are spaced 1 : 3 for the pressure
\* and 1 : 4 for the radiation and the battery, so that |z| = 2.5 and
\* |z| = 3.5 are hit exactly.  Any of the three can be the level the signal
\* rests at, so each metric is seen to step both up and down.
AnomalySnapshots == {<<4053, 2, 500>>, <<4400, 3, 499>>, <<5094, 6, 496>>}

\* the level the signal moves to when it leaves a level: from the nominal
\* level to the small step, from there to the larger step, and from there
\* back to the nominal level
LevelAfter(snapshot) ==
    CASE snapshot = <<4053, 2, 500>> -> <<4400, 3, 499>>
      [] snapshot = <<4400, 3, 499>> -> <<5094, 6, 496>>
      [] snapshot = <<5094, 6, 496>> -> <<4053, 2, 500>>

\* the signal stays at its level or moves to the next one
InTurn(snapshot) ==
    IF IsNone(telemetry.last) THEN TRUE
    ELSE snapshot \in {Get(telemetry.last), LevelAfter(Get(telemetry.last))}

\* the anomaly detector alone
NextAnomaly ==
    \/ \E s \in AnomalySnapshots :
           /\ detect_calls < MaxAnomalySamples
           /\ MayFeed(s, MaxAnomalyChanges)
           /\ InTurn(s)
           /\ periodic_anomaly_detection(s, None)
    \/ \E s \in AnomalySnapshots :
           /\ detect_calls < MaxAnomalySamples
           /\ MayFeed(s, MaxAnomalyChanges)
           /\ InTurn(s)
           /\ post_anomaly_detect(s)

SpecAnomaly == Init /\ [][NextAnomaly]_vars

\* snapshots of the reset specification: the nominal level and the larger
\* step
ResetSnapshots == {<<4053, 2, 500>>, <<5094, 6, 496>>}

\* the metric query parameter of POST /anomaly/reset: absent, or the name
\* of one metric
ResetMetrics == {None, Some("pressure")}

\* detection cycles with reset requests between them
NextReset ==
    \/ \E s \in ResetSnapshots :
           /\ detect_calls < MaxResetSamples
           /\ MayFeed(s, MaxResetChanges)
           /\ periodic_anomaly_detection(s, None)
    \/ \E s \in ResetSnapshots :
           /\ detect_calls < MaxResetSamples
           /\ MayFeed(s, MaxResetChanges)
           /\ post_anomaly_detect(s)
    \/ \E metric \in ResetMetrics :
           /\ reset_runs < MaxResets
           /\ reset_anomaly_statistics(metric)

SpecReset == Init /\ [][NextReset]_vars

\* snapshots of the history specification: the nominal level and a step of
\* 1 kPa, 0.04 mSv/hr and 4 kWh
HistorySnapshots == {<<4053, 2, 500>>, <<4093, 6, 496>>}

\* the telemetry fed to the detector settles: after its first samples the
\* snapshot stays the one before it
MaySettle(snapshot) ==
    detect_calls < MaxSettling \/ telemetry.last = Some(snapshot)

\* the number of check_safety calls made in the current minute
ChecksThisMinute ==
    Cardinality({i \in DOMAIN pressure_history :
                     pressure_history[i].ts = now})

\* the radiation fed to the safety layer rises by 0.01 mSv/hr from one
\* check to the next, so that every reading in its history is told apart
RadiationRamp == calls

\* long runs: the safety checks run at a steady rate, the same number in
\* every minute, while the detector is fed past the length of its window
NextHistory ==
    \/ /\ now < MaxHistoryTime
       /\ ChecksThisMinute = MaxChecksPerMinute
       /\ Tick
    \/ /\ calls < MaxHistoryCalls
       /\ ChecksThisMinute < MaxChecksPerMinute
       /\ periodic_safety_check(NominalPressure, RadiationRamp, None)
    \/ /\ calls < MaxHistoryCalls
       /\ ChecksThisMinute < MaxChecksPerMinute
       /\ post_safety_check(NominalPressure, RadiationRamp)
    \/ \E s \in HistorySnapshots :
           /\ detect_calls < MaxHistorySamples
           /\ MaySettle(s)
           /\ periodic_anomaly_detection(s, None)
    \/ \E s \in HistorySnapshots :
           /\ detect_calls < MaxHistorySamples
           /\ MaySettle(s)
           /\ post_anomaly_detect(s)

SpecHistory == Init /\ [][NextHistory]_vars


\* metric names given to the detector and to POST /anomaly/reset: the three
\* known names, a name of no metric, and the empty string
MetricNames == Metrics \cup {"temperature", ""}

\* the snapshot the detection cycles read, the nominal level, and the one
\* whose readings the direct calls feed, the larger step
LookupSnapshots == {<<4053, 2, 500>>}
DirectSnapshots == {<<5094, 6, 496>>}

\* the reading of a snapshot that belongs to a metric name
ReadingFor(metric_name, snapshot) ==
    IF metric_name = "radiation" THEN snapshot[2]
    ELSE IF metric_name = "battery" THEN snapshot[3]
    ELSE snapshot[1]

\* detection cycles, direct calls of update_metric and reset_statistics
\* with known and unknown names, and reset requests
NextLookup ==
    \/ \E s \in LookupSnapshots :
           /\ detect_calls < MaxLookupSamples
           /\ periodic_anomaly_detection(s, None)
    \/ \E s \in LookupSnapshots :
           /\ detect_calls < MaxLookupSamples
           /\ post_anomaly_detect(s)
    \/ \E name \in MetricNames, s \in DirectSnapshots :
           /\ Len(direct_calls) < MaxLookupCalls
           /\ call_update_metric(name, ReadingFor(name, s))
    \/ \E name \in {None} \cup {Some(n) : n \in MetricNames} :
           /\ Len(direct_calls) < MaxLookupCalls
           /\ call_reset_statistics(name)
    \/ \E metric \in {None} \cup {Some(n) : n \in MetricNames} :
           /\ reset_runs < MaxLookupResets
           /\ reset_anomaly_statistics(metric)

SpecLookup == Init /\ [][NextLookup]_vars

\* the scenarios the telemetry is drawn around: the dataclass defaults,
\* every dimension in its warning band, every dimension in its worst band,
\* and every dimension above its band
Scenarios ==
    {SettlementState_init,
     [SettlementState_init EXCEPT
          !.o2_pct = 20200, !.co2_ppm = 480000, !.pressure_kpa = 97000,
          !.temp_c = 12000, !.humidity_pct = 30000,
          !.crop_health_index = 80000, !.battery_kwh = 40000,
          !.solar_kw = 450000, !.load_kw = 870000],
     [SettlementState_init EXCEPT
          !.o2_pct = 19000, !.co2_ppm = 600000, !.pressure_kpa = 90000,
          !.temp_c = 10000, !.humidity_pct = 20000,
          !.crop_health_index = 50000, !.battery_kwh = 20000,
          !.solar_kw = 100000, !.load_kw = 950000],
     [SettlementState_init EXCEPT
          !.o2_pct = 22000, !.co2_ppm = 300000, !.pressure_kpa = 105000,
          !.temp_c = 30000, !.humidity_pct = 70000,
          !.crop_health_index = 95000, !.battery_kwh = 200000,
          !.solar_kw = 1200000, !.load_kw = 600000]}

\* the values one quantity is moved to: both sides of each threshold, the
\* thresholds themselves, and deviations of 1000 units
Readings ==
    [o2_pct |-> {19000, 20000, 20500, 21000, 21500, 22000},
     co2_ppm |-> {400000, 450000, 456000, 500000, 501000, 1500000},
     pressure_kpa |-> {94000, 95000, 98000, 101325, 103000, 114000,
                       1103000},
     temp_c |-> {12000, 17000, 18000, 22000, 23000, 1022000},
     humidity_pct |-> {19000, 39000, 40000, 60000, 66000},
     crop_health_index |-> {50000, 74000, 75000, 84000, 85000},
     battery_kwh |-> {29000, 30000, 50000, 60000, 90000, 95000, 100000,
                      450000, 1090000},
     solar_kw |-> {0, 499000, 500000, 800000, 1000000},
     load_kw |-> {800000, 850000, 851000, 900000, 901000, 1000000,
                  1900000}]

\* the states that differ from a scenario in at most n quantities
RECURSIVE OffScenario(_)
OffScenario(n) ==
    IF n = 0 THEN Scenarios
    ELSE LET near == OffScenario(n - 1)
         IN  near \cup
             UNION {{[state EXCEPT ![field] = v] : v \in Readings[field]} :
                    <<state, field>> \in near \X DOMAIN Readings}

DecisionStates == OffScenario(MaxOffScenario)

\* the query parameters of GET /decisions/recommendations
Categories == {None, Some("life_support"), Some("energy_dispatch")}
MinPriorities == {1, 8}

\* the simulator holds any of the telemetry states
InitDecision ==
    /\ InitApp
    /\ settlement \in DecisionStates

NextDecision ==
    \E category \in Categories, min_priority \in MinPriorities :
        /\ decision_calls < MaxDecisionCalls
        /\ get_recommendations(category, min_priority)

SpecDecision == InitDecision /\ [][NextDecision]_vars

\* deviations on both sides of the steps at 5, 10 and 20 units, of either
\* sign, and one of 1000 units; the four impact levels and one the table
\* does not hold
Deviations ==
    {0, 4999, 5000, 5001, -5001, 10000, 10001, -10001, 20000, 20001,
     -20000, -20001, 1000000, -1000000}
ImpactLevels == {"critical", "high", "medium", "low", "none"}

NextPriority ==
    \E deviation \in Deviations, impact \in ImpactLevels,
       critical \in BOOLEAN :
        /\ Len(priority_calls) < MaxPriorityCalls
        /\ call_calculate_priority(deviation, impact, critical)

SpecPriority == Init /\ [][NextPriority]_vars

\* snapshots <<pressure_kpa, radiation_msv_hr>> of the safety cycles: low
\* pressure, and low pressure with critical radiation; a cycle that reads
\* the same snapshot as the one before it emits nothing
CycleInputs == {<<88, 0>>, <<88, 50>>}

\* snapshots <<pressure, radiation, battery>> of the anomaly cycles: the
\* nominal level and the larger step
CycleSnapshots == {<<4053, 2, 500>>, <<5094, 6, 496>>}

\* the samples a metric's window holds before its detection runs
Warmup == 10

\* the detector after n anomaly cycles on nominal telemetry; a cycle that
\* raised an alert would have drawn an id, and there is none
RECURSIVE Warmed(_)
Warmed(n) ==
    IF n = 0
    THEN [pressure_stats |-> AnomalyDetector_init.pressure_stats,
          radiation_stats |-> AnomalyDetector_init.radiation_stats,
          battery_stats |-> AnomalyDetector_init.battery_stats,
          history |-> AnomalyDetector_init.history,
          uuid |-> SafetyLayer_init.uuid]
    ELSE LET before == Warmed(n - 1)
         IN  IF before.uuid = SafetyLayer_init.uuid
             THEN detect_anomalies(before, 4053, 2, 500, 0).self
             ELSE before

\* the application once the anomaly task has run its first Warmup cycles,
\* all on nominal telemetry and none of them raising an alert; the safety
\* task has not yet run
InitCycles ==
    /\ \E warm \in {Warmed(Warmup)} :
           /\ pressure_stats = warm.pressure_stats
           /\ radiation_stats = warm.radiation_stats
           /\ battery_stats = warm.battery_stats
           /\ history = warm.history
           /\ uuid_counter = warm.uuid
    /\ now = 0
    /\ pressure_history = SafetyLayer_init.pressure_history
    /\ radiation_history = SafetyLayer_init.radiation_history
    /\ active_alerts = SafetyLayer_init.active_alerts
    /\ pending_approvals = SafetyLayer_init.pending_approvals
    /\ ret_alerts = <<>>
    /\ ret_recommendations = <<>>
    /\ calls = 0
    /\ emitted_alerts = <<>>
    /\ emitted_recs = <<>>
    /\ in_flight = {}
    /\ approve_runs = 0
    /\ approve_response = None
    /\ approve_tally = EmptyDict
    /\ ret_anomalies = <<>>
    /\ detect_calls = Warmup
    /\ fed = [pressure |-> [i \in 1..Warmup |-> 4053],
              radiation |-> [i \in 1..Warmup |-> 2],
              battery |-> [i \in 1..Warmup |-> 500]]
    /\ telemetry = [last |-> Some(<<4053, 2, 500>>), changes |-> 0]
    /\ reset_runs = 0
    /\ reset_response = None
    /\ direct_calls = <<>>
    /\ settlement = SettlementState_init
    /\ ret_ranked = None
    /\ decision_calls = 0
    /\ decisions_response = None
    /\ priority_calls = <<>>
    /\ alerts_db = <<>>
    /\ recommendations_db = <<>>
    /\ audit_log = <<>>
    /\ audit_log_db = <<>>
    /\ safety_task = "running"
    /\ anomaly_task = "running"
    /\ cycle_errors = [safety |-> 0, anomaly |-> 0]
    /\ loop_running = None
    /\ coroutines = StartupTasks
    /\ evaluating = [safety |-> {}, anomaly |-> {}]
    /\ simulator = SensorSimulator_init
    /\ scenario_engine = ScenarioEngine_init
    /\ scenario_tasks = <<>>
    /\ scenario_response = None

\* where a statement of a cycle's body raises, if one does
SafetyFaults ==
    {Some("telemetry"), Some("alerts_db"), Some("recommendations_db")}
AnomalyFaults == {Some("telemetry"), Some("alerts_db")}

\* the query parameters of POST /audit-log, as <<action, resource, status>>:
\* an operator acknowledging an alert, the same with a status the handler
\* does not know, and a request without a status
AuditRequests ==
    {<<Some("acknowledge"), Some("alert"), Some("success")>>,
     <<Some("acknowledge"), Some("alert"), Some("done")>>,
     <<Some("acknowledge"), Some("alert"), None>>}

\* the cycles in which a statement raised, of either task
Faults == cycle_errors.safety + cycle_errors.anomaly

\* the two periodic tasks, the POST /safety/check handler and the audit
\* log beside each other; a statement of a cycle's body may raise
NextCycles ==
    \/ \E s \in CycleInputs :
           /\ calls < MaxCycleChecks
           /\ periodic_safety_check(s[1], s[2], None)
    \/ \E s \in CycleInputs, raising \in SafetyFaults :
           /\ calls < MaxCycleChecks
           /\ Faults < MaxCycleFaults
           /\ periodic_safety_check(s[1], s[2], raising)
    \/ \E s \in CycleInputs :
           /\ calls < MaxCycleChecks
           /\ post_safety_check(s[1], s[2])
    \/ \E s \in CycleSnapshots :
           /\ detect_calls < Warmup + MaxCycleSamples
           /\ periodic_anomaly_detection(s, None)
    \/ \E s \in CycleSnapshots, raising \in AnomalyFaults :
           /\ detect_calls < Warmup + MaxCycleSamples
           /\ Faults < MaxCycleFaults
           /\ periodic_anomaly_detection(s, raising)
    \/ \E r \in AuditRequests :
           /\ Len(audit_log_db) < MaxAuditEntries
           /\ create_audit_log_entry(Some("operator"), r[1], r[2], r[3])

SpecCycles == InitCycles /\ [][NextCycles]_vars

\* the telemetry of the event loop specification: low pressure with critical
\* radiation for the safety layer, the nominal level for the detector
LoopInputs == {<<88, 50>>}
LoopSnapshots == {<<4053, 2, 500>>}

\* the coroutines of one component that are at a statement
AtStatement(component, statement) ==
    {c \in 1..Len(coroutines) :
         /\ ComponentOf(coroutines[c].coro) = component
         /\ coroutines[c].at = statement}

\* the periodic tasks and the handlers of POST /safety/check and
\* POST /anomaly/detect on one event loop, statement by statement
NextLoop ==
    \/ \E coro \in {"check_safety", "detect_anomalies"} :
           /\ Len(coroutines) < Len(StartupTasks) + MaxLoopRequests
           /\ CreateHandler(coro)
    \/ \E c \in 1..Len(coroutines) : Resume(c)
    \/ \E c \in 1..Len(coroutines) : Await(c)
    \/ \E c \in 1..Len(coroutines) :
           /\ ComponentOf(coroutines[c].coro) = "safety"
           /\ calls + Cardinality(AtStatement("safety", "return"))
                  < MaxLoopChecks
           /\ Call(c)
    \/ \E c \in 1..Len(coroutines) :
           /\ ComponentOf(coroutines[c].coro) = "anomaly"
           /\ detect_calls + Cardinality(AtStatement("anomaly", "return"))
                  < MaxLoopSamples
           /\ Call(c)
    \/ \E c \in 1..Len(coroutines), s \in LoopInputs :
           ReturnToSafetyTask(c, s[1], s[2])
    \/ \E c \in 1..Len(coroutines), s \in LoopInputs :
           ReturnToSafetyHandler(c, s[1], s[2])
    \/ \E c \in 1..Len(coroutines), s \in LoopSnapshots :
           ReturnToAnomalyTask(c, s)
    \/ \E c \in 1..Len(coroutines), s \in LoopSnapshots :
           ReturnToAnomalyHandler(c, s)

SpecLoop == Init /\ [][NextLoop]_vars

\* the three consumers of the telemetry beside each other: the safety
\* layer, the anomaly detector and the decision engine, each called by its
\* handler on a state built from what the simulator holds
InitConsumers ==
    /\ InitApp
    /\ settlement \in Scenarios

NextConsumers ==
    \/ \E s \in CycleInputs :
           /\ calls < MaxConsumerCalls
           /\ post_safety_check(s[1], s[2])
    \/ \E s \in CycleSnapshots :
           /\ detect_calls < MaxConsumerCalls
           /\ post_anomaly_detect(s)
    \/ \E category \in Categories :
           /\ decision_calls < MaxConsumerCalls
           /\ get_recommendations(category, 1)

SpecConsumers == InitConsumers /\ [][NextConsumers]_vars

\* scenario durations in minutes: the shortest the routes accept, and one
\* that reaches the storm's peak
Durations == {1, 2}

\* the readings the simulator's loop writes: the nominal ones, around
\* which it draws them
SensorReadings == {<<RadiationState_init, AtmosphereState_init>>}

\* the entries of one action in the audit file: the handlers log
\* START_SCENARIO and STOP_SCENARIO, the engine SCENARIO_STOP for a stop
\* of an active scenario
ScenarioRequests(action) ==
    Cardinality({i \in 1..Len(audit_log) : audit_log[i].action = action})

\* a minute passes; a task just created has had its first turn by then,
\* reading the clock within the iteration of the loop that follows its
\* creation
ScenarioTick ==
    /\ now < MaxScenarioTime
    /\ \A k \in 1..Len(scenario_tasks) : scenario_tasks[k].at # "created"
    /\ Tick

\* the scenario routes, the tasks of the engine and the simulator's loop on
\* one event loop.  A start is taken while the minutes modelled still hold
\* the whole scenario.
NextScenario ==
    \/ \E scenario \in {"radiation_storm", "pressure_leak"},
          duration \in Durations :
           /\ Len(scenario_tasks) < MaxScenarioStarts
           /\ now + duration <= MaxScenarioTime
           /\ start_scenario(scenario, duration)
    \/ /\ IF IsNone(scenario_engine.active_scenario)
          THEN ScenarioRequests("STOP_SCENARIO") -
                   ScenarioRequests("SCENARIO_STOP") < MaxIdleStops
          ELSE ScenarioRequests("SCENARIO_STOP") < MaxScenarioStops
       /\ stop_scenario
    \/ \E k \in 1..Len(scenario_tasks) : scenario_task_step(k)
    \/ \E reading \in SensorReadings :
           update_sensors(reading[1], reading[2])
    \/ ScenarioTick

SpecScenario == Init /\ [][NextScenario]_vars

\* the same under the event loop's scheduling: a task that is ready gets
\* its turn, and the clock goes on
SpecScenarioFair ==
    /\ SpecScenario
    /\ WF_vars(ScenarioTick)
    /\ \A k \in 1..MaxScenarioStarts :
           WF_vars(k <= Len(scenario_tasks) /\ scenario_task_step(k))

\* radiation readings in 0.01 mSv/hr that raise a spike after four
\* background readings and clear it again
ClearingInputs == {0, 45}

\* a hazard that comes and goes, with the approvals arriving beside it
NextClearing ==
    \/ now < MaxClearingTime /\ Tick
    \/ \E r \in ClearingInputs :
           /\ calls < MaxClearingCalls
           /\ periodic_safety_check(NominalPressure, r, None)
    \/ \E id \in DOMAIN pending_approvals \cup {UnknownId} :
           /\ Cardinality(in_flight) + approve_runs < MaxClearingApprovals
           /\ SubmitApprove(id, "alice")
    \/ \E req \in in_flight : post_approve_action(req)

SpecClearing == Init /\ [][NextClearing]_vars

----------------------------------------------------------------------------
(* Vocabulary of the properties *)

Active(hazard) == hazard \in DOMAIN active_alerts

Count(s, x) == Cardinality({i \in DOMAIN s : s[i] = x})

HazardsOf(alerts) == {HazardOf(alerts[i]) : i \in DOMAIN alerts}

\* the step is a check_safety call
IsCheck == calls' = calls + 1

\* the step is a run of the approval handler
IsApprove == approve_runs' = approve_runs + 1

LastPressure == pressure_history[Len(pressure_history)].val

LastRadiation ==
    radiation_history.readings[Len(radiation_history.readings)]

\* the rate of the window's oldest and newest readings is defined and
\* below -2.0 %/min, written out from the window itself
LeakBreach(h) ==
    /\ Len(h) >= 2
    /\ h[Len(h)].ts # h[1].ts
    /\ h[1].val # 0
    /\ LET change == (h[Len(h)].val - h[1].val) * 100
           scale == h[1].val * (h[Len(h)].ts - h[1].ts)
       IN  IF scale > 0 THEN change < (-2) * scale
                        ELSE change > (-2) * scale

\* the newest reading exceeds the mean of the 5 most recent readings by
\* more than 0.1, written out from the readings themselves
SpikeBreach(rs) ==
    /\ Len(rs) >= 5
    /\ 5 * rs[Len(rs)] >
           rs[Len(rs)] + rs[Len(rs) - 1] + rs[Len(rs) - 2]
             + rs[Len(rs) - 3] + rs[Len(rs) - 4] + 50

----------------------------------------------------------------------------
(* C1.  For each of the four hazard types the active set holds at most     *)
(* one open Alert raised for that type, and a check_safety call emits an   *)
(* Alert of a type only if that type was not in the active set when the    *)
(* call began.                                                             *)

C1_OneOpenAlert ==
    \A h \in AlertTypes :
        /\ Cardinality({k \in DOMAIN active_alerts :
                            HazardOf(active_alerts[k]) = h}) <= 1
        /\ Active(h) => HazardOf(active_alerts[h]) = h

C1_EmitOnlyIfIdle ==
    IsCheck =>
        /\ HazardsOf(ret_alerts') \cap DOMAIN active_alerts = {}
        /\ Cardinality(HazardsOf(ret_alerts')) = Len(ret_alerts')

----------------------------------------------------------------------------
(* C2.  After every check_safety call PRESSURE_LEAK is Active iff the      *)
(* oldest/newest rate of the pressure window is < -2.0 %/min; a leak       *)
(* Alert is emitted by exactly the first call of each continuous run of    *)
(* such calls; the hazard is removed by the first call whose rate is       *)
(* >= -2.0 or undefined, and the next breach emits a new Alert.            *)

C2_LeakActiveIffBreach ==
    Active(ALERT_PRESSURE_LEAK) <=> LeakBreach(pressure_history)

C2_LeakEmittedOncePerRun ==
    IsCheck =>
        /\ (ALERT_PRESSURE_LEAK \in HazardsOf(ret_alerts')) <=>
               (LeakBreach(pressure_history') /\ ~LeakBreach(pressure_history))
        /\ Count(emitted_alerts', ALERT_PRESSURE_LEAK) <=
               Count(emitted_alerts, ALERT_PRESSURE_LEAK) + 1

C2_PressureLeak == []C2_LeakActiveIffBreach
                   /\ [][C2_LeakEmittedOncePerRun]_vars

\* a second leak episode has emitted its own Alert
C2_Witness ==
    /\ Count(emitted_alerts, ALERT_PRESSURE_LEAK) = 2
    /\ Active(ALERT_PRESSURE_LEAK)

----------------------------------------------------------------------------
(* C3.  After every check_safety call PRESSURE_CRITICAL is Active iff      *)
(* that call's pressure_kpa < 90.0.                                        *)

C3_PressureCriticalIffBelow ==
    calls > 0 =>
        (Active(ALERT_PRESSURE_CRITICAL) <=>
             LastPressure < PRESSURE_CRITICAL_THRESHOLD)

----------------------------------------------------------------------------
(* C4.  After every check_safety call RADIATION_CRITICAL is Active iff     *)
(* that call's radiation_msv_hr >= 0.5.                                    *)

C4_RadiationCriticalIffAbove ==
    calls > 0 =>
        (Active(ALERT_RADIATION_CRITICAL) <=>
             LastRadiation >= RADIATION_CRITICAL_THRESHOLD)

----------------------------------------------------------------------------
(* C5.  RADIATION_SPIKE and RADIATION_CRITICAL are never both Active.      *)

C5_SpikeCriticalExclusive ==
    ~(Active(ALERT_RADIATION_SPIKE) /\ Active(ALERT_RADIATION_CRITICAL))

----------------------------------------------------------------------------
(* C6.  A RADIATION_SPIKE Alert is emitted only when at least 5 readings   *)
(* are recorded, the current reading is > baseline + 0.1 and it is below   *)
(* 0.5; once Active, the spike is removed by the first call whose reading  *)
(* is <= baseline + 0.1, so after any call an Active spike has a reading   *)
(* > baseline + 0.1.                                                       *)

C6_SpikeEmittedOnlyOnBreach ==
    (IsCheck /\ ALERT_RADIATION_SPIKE \in HazardsOf(ret_alerts')) =>
        /\ SpikeBreach(radiation_history'.readings)
        /\ LastRadiation' < 50

C6_SpikeClearsBelowBaseline ==
    Active(ALERT_RADIATION_SPIKE) => SpikeBreach(radiation_history.readings)

C6_RadiationSpike == []C6_SpikeClearsBelowBaseline
                     /\ [][C6_SpikeEmittedOnlyOnBreach]_vars

----------------------------------------------------------------------------
(* C7.  Every Alert a check_safety call emits comes with exactly one       *)
(* Recommendation (priority high, action required) and exactly one new     *)
(* PendingApproval entry keyed by that Recommendation's id, not approved;  *)
(* so the numbers of entries, of Alerts emitted and of Recommendations     *)
(* emitted are equal.                                                      *)

C7_PairedInCall ==
    IsCheck =>
        /\ Len(ret_recommendations') = Len(ret_alerts')
        /\ \A i \in DOMAIN ret_recommendations' :
               LET rec == ret_recommendations'[i]
               IN  /\ rec.priority = "high"
                   /\ rec.action_required
                   /\ rec.category = ret_alerts'[i].category
                   /\ rec.id \notin DOMAIN pending_approvals
                   /\ rec.id \in DOMAIN pending_approvals'
                   /\ ~pending_approvals'[rec.id].approved
        /\ DOMAIN pending_approvals' \ DOMAIN pending_approvals =
               {ret_recommendations'[i].id : i \in DOMAIN ret_recommendations'}
        /\ Cardinality(DOMAIN pending_approvals') =
               Cardinality(DOMAIN pending_approvals) + Len(ret_alerts')

C7_CountsEqual ==
    /\ Cardinality(DOMAIN pending_approvals) = Len(emitted_alerts)
    /\ Len(emitted_recs) = Len(emitted_alerts)

C7_AlertRecommendationApproval == []C7_CountsEqual
                                  /\ [][C7_PairedInCall]_vars

\* the latest call emitted two Alerts at once, after earlier emissions
C7_Witness ==
    /\ Len(ret_alerts) >= 2
    /\ Len(emitted_alerts) > Len(ret_alerts)

----------------------------------------------------------------------------
(* C8.  approve returns false when the id is unknown or the entry is       *)
(* already approved, and then leaves every PendingApproval record          *)
(* unchanged: approved_by and approved_at of an approved entry keep their  *)
(* values and no entry is created for an unknown id.                       *)

C8_FailedApproveStep ==
    (IsApprove /\ Get(approve_response').called) =>
        LET r == Get(approve_response')
            refused == \/ r.id \notin DOMAIN pending_approvals
                       \/ pending_approvals[r.id].approved
        IN  refused => /\ ~r.ok
                       /\ r.status = 400
                       /\ pending_approvals' = pending_approvals

C8_ApproveFailsUnchanged == [][C8_FailedApproveStep]_vars

\* the latest run refused, at a later time, another approver's request
\* for an entry that is approved
RefusedLater(id) ==
    /\ pending_approvals[id].approved
    /\ ~IsNone(approve_response)
    /\ Get(approve_response).id = id
    /\ Get(approve_response).called
    /\ ~Get(approve_response).ok
    /\ Get(approve_response).by # Get(pending_approvals[id].approved_by)
    /\ Get(approve_response).at > Get(pending_approvals[id].approved_at)

\* approve has been refused for an unknown id and, just now, for an entry
\* that another approver had approved, while a second entry is pending
C8_Witness ==
    /\ Tally(UnknownId).runs >= 1
    /\ UnknownId \notin DOMAIN pending_approvals
    /\ \E id \in DOMAIN pending_approvals : RefusedLater(id)
    /\ \E id \in DOMAIN pending_approvals : ~pending_approvals[id].approved

----------------------------------------------------------------------------
(* C9.  approved never goes from true back to false; for each id at most   *)
(* one approve call ever returns true; approved_by and approved_at are     *)
(* set by that call and never change afterwards.                           *)

C9_ApprovedStays ==
    \A id \in DOMAIN pending_approvals :
        pending_approvals[id].approved =>
            /\ id \in DOMAIN pending_approvals'
            /\ pending_approvals'[id].approved
            /\ pending_approvals'[id].approved_by =
                   pending_approvals[id].approved_by
            /\ pending_approvals'[id].approved_at =
                   pending_approvals[id].approved_at

C9_SetByTheOneCall ==
    \A id \in DOMAIN pending_approvals :
        IF pending_approvals[id].approved
        THEN /\ Tally(id).granted = 1
             /\ pending_approvals[id].approved_by =
                    Some(Get(Tally(id).winner).by)
             /\ pending_approvals[id].approved_at =
                    Some(Get(Tally(id).winner).at)
        ELSE /\ Tally(id).granted = 0
             /\ pending_approvals[id].approved_by = None
             /\ pending_approvals[id].approved_at = None

C9_ApprovedMonotonic == []C9_SetByTheOneCall /\ [][C9_ApprovedStays]_vars

\* an entry was approved, time has passed, two more requests for it have
\* been refused and a safety cycle has run
C9_Witness ==
    \E id \in DOMAIN pending_approvals :
        /\ RefusedLater(id)
        /\ Tally(id).runs = 3
        /\ calls >= 1

----------------------------------------------------------------------------
(* C10.  When two approval requests for the same pending id are in flight  *)
(* together, also with safety cycles running between them, exactly one     *)
(* returns true and the record carries that winner's approved_by.          *)

----------------------------------------------------------------------------
(* C11.  get_pending_approvals returns exactly the entries whose approved  *)
(* flag is false, each with its recommendation_id: an entry just created   *)
(* is in the list, an entry just approved is no longer in it;              *)
(* get_approval_status(id) returns the full record, also for an approved   *)
(* id, and None only for an id that was never created.  The two GET        *)
(* handlers change no state, so their answers are functions of the state.  *)

\* the ids listed by get_pending_approvals in a state of the layer
PendingIds(self) ==
    {get_pending_approvals(self)[i].recommendation_id :
         i \in DOMAIN get_pending_approvals(self)}

\* the ids of all recommendations ever created
CreatedIds == {emitted_recs[i] : i \in DOMAIN emitted_recs}

C11_ListIsTheUnapproved ==
    LET res == get_pending_approvals(Self)
    IN  /\ Len(res) = Cardinality(PendingIds(Self))
        /\ PendingIds(Self) = {id \in CreatedIds : Tally(id).granted = 0}
        /\ \A i \in DOMAIN res :
               LET id == res[i].recommendation_id
               IN  /\ ~res[i].approved
                   /\ res[i].approved_by = None
                   /\ res[i].approved_at = None
                   /\ res[i].action_id = pending_approvals[id].action_id
                   /\ res[i].category = pending_approvals[id].category
                   /\ res[i].title = pending_approvals[id].title
                   /\ res[i].timestamp = pending_approvals[id].timestamp

C11_StatusIsTheRecord ==
    \A id \in CreatedIds \cup {UnknownId} \cup {r.id : r \in in_flight} :
        IF id \in CreatedIds
        THEN /\ get_approval_status(Self, id) = Some(pending_approvals[id])
             /\ Tally(id).granted = 1 =>
                    /\ Get(get_approval_status(Self, id)).approved
                    /\ Get(get_approval_status(Self, id)).approved_by =
                           Some(Get(Tally(id).winner).by)
        ELSE IsNone(get_approval_status(Self, id))

C11_ListFollowsSteps ==
    /\ IsCheck =>
           \A i \in DOMAIN ret_recommendations' :
               ret_recommendations'[i].id \in PendingIds(Self)'
    /\ (IsApprove /\ Get(approve_response').ok) =>
           /\ Get(approve_response').id \in PendingIds(Self)
           /\ Get(approve_response').id \notin PendingIds(Self)'
           /\ PendingIds(Self)' =
                  PendingIds(Self) \ {Get(approve_response').id}

C11_PendingListAndStatus ==
    [](C11_ListIsTheUnapproved /\ C11_StatusIsTheRecord)
        /\ [][C11_ListFollowsSteps]_vars

\* of two entries created by one safety cycle, one has been approved and
\* the other is still pending
C11_Witness ==
    /\ ~IsNone(approve_response)
    /\ Get(approve_response).ok
    /\ Len(get_pending_approvals(Self)) = 1
    /\ Cardinality(CreatedIds) = 2
    /\ ~IsNone(get_approval_status(Self, Get(approve_response).id))

----------------------------------------------------------------------------
(* Vocabulary of the anomaly properties.  The samples a metric has been    *)
(* fed since construction or its last reset are recorded by the handlers   *)
(* in the variable fed; the quantities below are computed from that        *)
(* record, not from the detector's own fields.                             *)

IsDetect == detect_calls' = detect_calls + 1

IsReset == reset_runs' = reset_runs + 1

StatsOf(m) ==
    CASE m = "pressure" -> pressure_stats
      [] m = "radiation" -> radiation_stats
      [] m = "battery" -> battery_stats

\* the last 100 samples fed, n of them, their sum, and the latest sample
Window(m) == LastN(fed[m], 100)
WindowLen(m) == Len(Window(m))
Total(m) == SumSeq(Window(m))
Latest(m) == fed[m][Len(fed[m])]

\* n * (latest sample - mean of the window)
Dev(m) ==
    LET w == Window(m)
    IN  Len(w) * w[Len(w)] - SumSeq(w)

\* n^3 times the population variance of the window
Spread(m) ==
    LET w == Window(m)
        n == Len(w)
        total == SumSeq(w)
    IN  SumSeq([i \in 1..n |-> (n * w[i] - total) * (n * w[i] - total)])

\* |z| >= a/b for the latest sample against its window, the latest sample
\* included: z^2 = n * Dev^2 / Spread
ZAtLeast(m, a, b) ==
    LET spread == Spread(m)
        dev == Dev(m)
        g == GCD(dev * dev, spread)
    IN  /\ spread > 0
        /\ b * b * WindowLen(m) * ((dev * dev) \div g) >=
               a * a * (spread \div g)

\* the alerts for a metric in the latest result of detect_anomalies
AlertsFor(m) ==
    {ret_anomalies[i] : i \in {j \in DOMAIN ret_anomalies :
                                   ret_anomalies[j].metric = m}}

----------------------------------------------------------------------------
(* C13.  No anomaly alert is emitted for a metric while its sample_count   *)
(* is below 10 or its std_dev is 0, whatever the samples; the call         *)
(* returns normally with no alert for that metric.                         *)

C13_NoAlertBeforeGate ==
    \A m \in Metrics :
        /\ (StatsOf(m).sample_count < 10 \/ StatsOf(m).std_dev.sign = 0) =>
               AlertsFor(m) = {}
        /\ (Len(fed[m]) < 10 \/ (Len(fed[m]) > 0 /\ Spread(m) = 0)) =>
               AlertsFor(m) = {}

\* the ninth sample is at |z| > 2.5 for every metric and the call returned
\* no alert
C13_Witness ==
    /\ detect_calls = 9
    /\ \A m \in Metrics : StatsOf(m).sample_count = 9 /\ ZAtLeast(m, 5, 2)
    /\ ret_anomalies = <<>>

----------------------------------------------------------------------------
(* C14.  A radiation anomaly alert is never emitted for a sample with      *)
(* z < 0, also when |z| >= 3.5: radiation alerts are emitted only for      *)
(* z > 0, and their anomaly type is 'spike'.                               *)

C14_RadiationOnlySpikes ==
    /\ \A a \in AlertsFor("radiation") :
           /\ Dev("radiation") > 0
           /\ a.z_score.sign > 0
           /\ a.evidence.anomaly_type = "spike"
    /\ (Len(fed.radiation) > 0 /\ Dev("radiation") <= 0) =>
           AlertsFor("radiation") = {}

\* a radiation sample at z <= -3.5 after at least 9 others raised no
\* radiation alert, in a call that did raise a battery alert
C14_Witness ==
    /\ radiation_stats.sample_count >= 10
    /\ Dev("radiation") < 0
    /\ ZAtLeast("radiation", 7, 2)
    /\ AlertsFor("radiation") = {}
    /\ AlertsFor("battery") # {}

----------------------------------------------------------------------------
(* C15.  For pressure and for battery, with at least 10 samples and        *)
(* std_dev > 0: the alert is CRITICAL iff |z| >= 3.5, WARNING iff          *)
(* 2.5 <= |z| < 3.5, and there is none iff |z| < 2.5, for both signs of z; *)
(* its type is 'high' when z > 0 and 'low' otherwise.  A call returns at   *)
(* most one alert per metric.                                              *)

\* |z| = a/b exactly
ZExactly(m, a, b) ==
    LET spread == Spread(m)
        dev == Dev(m)
        g == GCD(dev * dev, spread)
    IN  /\ spread > 0
        /\ b * b * WindowLen(m) * ((dev * dev) \div g) =
               a * a * (spread \div g)

C15_TwoSidedClassification ==
    /\ \A m \in {"pressure", "battery"} :
           (Len(fed[m]) >= 10 /\ Spread(m) > 0) =>
               /\ (\E a \in AlertsFor(m) :
                       a.severity = AlertSeverity.CRITICAL)
                      <=> ZAtLeast(m, 7, 2)
               /\ (\E a \in AlertsFor(m) :
                       a.severity = AlertSeverity.WARNING)
                      <=> (ZAtLeast(m, 5, 2) /\ ~ZAtLeast(m, 7, 2))
               /\ AlertsFor(m) = {} <=> ~ZAtLeast(m, 5, 2)
               /\ \A a \in AlertsFor(m) :
                      a.evidence.anomaly_type =
                          IF Dev(m) > 0 THEN "high" ELSE "low"
    /\ \A m \in Metrics :
           Cardinality({i \in DOMAIN ret_anomalies :
                            ret_anomalies[i].metric = m}) <= 1

\* a battery sample at exactly z = -3.5 raised a CRITICAL 'low' alert and
\* the pressure sample of the same call, at 2.5 < z < 3.5, a WARNING 'high'
C15_Witness ==
    /\ detect_calls >= 10
    /\ ZExactly("battery", 7, 2)
    /\ \E a \in AlertsFor("battery") :
           /\ a.severity = AlertSeverity.CRITICAL
           /\ a.evidence.anomaly_type = "low"
    /\ ~ZAtLeast("pressure", 7, 2)
    /\ \E a \in AlertsFor("pressure") :
           /\ a.severity = AlertSeverity.WARNING
           /\ a.evidence.anomaly_type = "high"

----------------------------------------------------------------------------
(* C16.  detect_anomalies adds the sample to the window and recomputes     *)
(* mean and std_dev before it computes the sample's z-score: z is taken    *)
(* against the window that holds the sample.  For 9 pressure samples of    *)
(* 101.325 followed by 110.0, std_dev is the population standard           *)
(* deviation of the 10 samples, |z| = 3, and the alert is a WARNING.       *)

NineThenOne == [i \in 1..10 |-> IF i <= 9 THEN 4053 ELSE 4400]

C16_ZAgainstOwnWindow ==
    /\ \A m \in Metrics : \A a \in AlertsFor(m) :
           LET g == GCD(Dev(m) * Dev(m), Spread(m))
           IN  /\ a.current_value = Latest(m)
               /\ a.z_score.sign = Sgn(Dev(m))
               /\ a.z_score.sq.num * (Spread(m) \div g) =
                      a.z_score.sq.den * WindowLen(m) *
                          ((Dev(m) * Dev(m)) \div g)
    /\ fed.pressure = NineThenOne =>
           /\ pressure_stats.mean = [num |-> 40877, den |-> 10]
           /\ pressure_stats.std_dev =
                  [sign |-> 1, sq |-> [num |-> 1083681, den |-> 100]]
           /\ \E a \in AlertsFor("pressure") :
                  /\ a.severity = AlertSeverity.WARNING
                  /\ a.z_score = [sign |-> 1, sq |-> IntFrac(9)]

\* the scenario has been fed and its tenth call returned a pressure alert
C16_Witness ==
    /\ fed.pressure = NineThenOne
    /\ AlertsFor("pressure") # {}

----------------------------------------------------------------------------
(* C17.  After every update of a metric, the first one after construction  *)
(* or reset included, its mean is the arithmetic mean and its std_dev the  *)
(* population standard deviation of the samples in its window: after a     *)
(* single sample v, mean = v and std_dev = 0.                              *)

C17_MeanStdOfWindow ==
    \A m \in Metrics :
        Len(fed[m]) >= 1 =>
            /\ StatsOf(m).mean = Frac(Total(m), WindowLen(m))
            /\ StatsOf(m).std_dev =
                   math_sqrt(Frac(Spread(m),
                             WindowLen(m) * WindowLen(m) * WindowLen(m)))

----------------------------------------------------------------------------
(* C20.  reset_statistics(metric) returns that metric's statistics and     *)
(* history to those of a freshly constructed detector (sample_count 0,     *)
(* empty history, so the 10-sample gate starts again) and leaves the       *)
(* other metrics' statistics and histories unchanged; reset_statistics()   *)
(* does so for all three metrics.                                          *)

C20_ResetStep ==
    IsReset =>
        /\ Get(reset_response').status = 200
        /\ \A m \in Metrics :
               IF IsNone(Get(reset_response').metric) \/
                  Get(reset_response').metric = Some(m)
               THEN /\ StatsOf(m)' = MetricStatistics
                    /\ StatsOf(m)'.sample_count = 0
                    /\ history'[m] = <<>>
               ELSE /\ StatsOf(m)' = StatsOf(m)
                    /\ history'[m] = history[m]

C20_GateStartsAgain ==
    IsDetect =>
        \A m \in Metrics :
            /\ StatsOf(m)'.sample_count = Len(fed'[m])
            /\ Len(fed'[m]) < 10 => AlertsFor(m)' = {}

C20_ResetFrame == [][C20_ResetStep /\ C20_GateStartsAgain]_vars

\* the pressure statistics were reset after 10 samples; the next sample, a
\* step, raised a radiation alert and no pressure alert
C20_Witness ==
    /\ reset_response = Some([metric |-> Some("pressure"), status |-> 200])
    /\ pressure_stats.sample_count = 1
    /\ Len(history.pressure) = 1
    /\ radiation_stats.sample_count = 11
    /\ AlertsFor("radiation") # {}
    /\ AlertsFor("pressure") = {}

----------------------------------------------------------------------------
(* C18.  std_dev >= 0 for every metric in every reachable state, and       *)
(* after n >= 1 updates since construction or reset the EWMA is given by   *)
(* ewma_1 = value_1, ewma_k = 0.3 * value_k + 0.7 * ewma_(k-1).            *)

RECURSIVE Pow10(_)
Pow10(k) == IF k = 0 THEN 1 ELSE 10 * Pow10(k - 1)

\* 10^(n-1) times the EWMA of the n >= 1 samples s, by the recursion
RECURSIVE EwmaScaled(_)
EwmaScaled(s) ==
    IF Len(s) = 1 THEN s[1]
    ELSE 3 * s[Len(s)] * Pow10(Len(s) - 2) +
         7 * EwmaScaled(SubSeq(s, 1, Len(s) - 1))

\* 10^k times the decimal number e, which has at most k fractional digits
DecScaled(e, k) ==
    e.int * Pow10(k) +
    SumSeq([i \in 1..Len(e.frac) |-> e.frac[i] * Pow10(k - i)])

C18_StdNonNegative ==
    \A m \in Metrics :
        /\ StatsOf(m).std_dev.sign \in {0, 1}
        /\ StatsOf(m).std_dev.sq.num >= 0
        /\ StatsOf(m).std_dev.sq.den > 0
        /\ StatsOf(m).std_dev.sign = 0 <=> StatsOf(m).std_dev.sq.num = 0

\* the first six values of the recursion, computed in integers
C18_EwmaOfFirstSamples ==
    \A m \in Metrics :
        (Len(fed[m]) >= 1 /\ Len(fed[m]) <= 6) =>
            /\ Len(StatsOf(m).ewma.frac) <= Len(fed[m]) - 1
            /\ DecScaled(StatsOf(m).ewma, Len(fed[m]) - 1) =
                   EwmaScaled(fed[m])

\* every step of the recursion
C18_EwmaStep ==
    IsDetect =>
        \A m \in Metrics :
            StatsOf(m)'.ewma =
                IF fed[m] = <<>>
                THEN Dec(Latest(m)')
                ELSE DecBlend([num |-> 3, den |-> 10], Latest(m)',
                              StatsOf(m).ewma)

C18_StdAndEwma ==
    [](C18_StdNonNegative /\ C18_EwmaOfFirstSamples)
        /\ [][C18_EwmaStep]_vars

\* the pressure statistics were reset and have since been fed three samples
\* with a step between them, while the battery has been fed nine
C18_Witness ==
    /\ ~IsNone(reset_response)
    /\ Len(fed.pressure) = 3
    /\ fed.pressure[1] # fed.pressure[3]
    /\ pressure_stats.ewma.frac # <<>>
    /\ pressure_stats.std_dev.sign = 1
    /\ Len(fed.battery) >= 9

----------------------------------------------------------------------------
(* C12: history bounds *)

\* the three histories with the newest element taken off
StatsHistoryBefore(m) == SubSeq(history[m], 1, Len(history[m]) - 1)

RadiationReadings == radiation_history.readings

\* each metric's statistics history is the last 100 samples fed, in order
C12_StatsHistoryBounded ==
    \A m \in Metrics :
        /\ Len(history[m]) <= 100
        /\ Len(history[m]) = IF Len(fed[m]) < 100 THEN Len(fed[m]) ELSE 100
        /\ \A i \in 1..Len(history[m]) :
               history[m][i] = fed[m][Len(fed[m]) - Len(history[m]) + i]

\* the radiation history has at most 10 readings
C12_RadiationHistoryBounded ==
    /\ Len(RadiationReadings) <= 10
    /\ Len(RadiationReadings) = IF calls < 10 THEN calls ELSE 10

\* no reading of the pressure window is more than 5 minutes older than
\* the newest one, and the readings are in the order of their times
C12_PressureWindowBounded ==
    \A i \in 1..Len(pressure_history) :
        /\ pressure_history[Len(pressure_history)].ts -
               pressure_history[i].ts <= 5
        /\ pressure_history[Len(pressure_history)].ts -
               pressure_history[i].ts >= 0
        /\ \A j \in 1..Len(pressure_history) :
               i <= j => pressure_history[i].ts <= pressure_history[j].ts

\* a full history gives up its oldest element and nothing else: what is
\* kept besides the new element is the end of what was kept before
C12_OldestFirst ==
    /\ IsDetect =>
           \A m \in Metrics :
               \/ /\ Len(history[m]) < 100
                  /\ StatsHistoryBefore(m)' = history[m]
               \/ /\ Len(history[m]) = 100
                  /\ StatsHistoryBefore(m)' = Tail(history[m])
    /\ IsCheck =>
           \/ /\ Len(RadiationReadings) < 10
              /\ RadiationReadings' =
                     Append(RadiationReadings,
                            RadiationReadings'[Len(RadiationReadings')])
           \/ /\ Len(RadiationReadings) = 10
              /\ RadiationReadings' =
                     Append(Tail(RadiationReadings),
                            RadiationReadings'[Len(RadiationReadings')])

\* C12: in every reachable state each metric's statistics history has at
\* most 100 samples, the radiation history at most 10 readings, and no
\* reading of the pressure window is more than 5 minutes older than the
\* newest reading; a full history evicts its oldest element first
C12_HistoryBounds ==
    [](C12_StatsHistoryBounded /\ C12_RadiationHistoryBounded
           /\ C12_PressureWindowBounded)
        /\ [][C12_OldestFirst]_vars

\* all three histories have dropped something: more than 100 samples were
\* fed and the first, now gone, was unlike the oldest one kept, more than
\* 10 safety checks ran, and the pressure window spans
\* exactly 5 minutes with older readings gone
C12_Witness ==
    /\ Len(fed.pressure) > 100
    /\ Len(history.pressure) = 100
    /\ fed.pressure[1] # history.pressure[1]
    /\ calls > 10
    /\ Len(RadiationReadings) = 10
    /\ Len(pressure_history) < calls
    /\ pressure_history[Len(pressure_history)].ts - pressure_history[1].ts = 5

----------------------------------------------------------------------------
(* C19: running minimum, maximum and sample count *)

\* the samples of a metric fed since construction or the last reset
Seen(m) == {fed[m][i] : i \in DOMAIN fed[m]}

\* sample_count is the number of updates, min_value and max_value are the
\* smallest and the largest sample ever seen
C19_OverAllSamples ==
    \A m \in Metrics :
        /\ StatsOf(m).sample_count = Len(fed[m])
        /\ fed[m] # <<>> =>
               /\ StatsOf(m).min_value.inf = 0
               /\ StatsOf(m).min_value.val \in Seen(m)
               /\ \A x \in Seen(m) : StatsOf(m).min_value.val <= x
               /\ StatsOf(m).max_value.inf = 0
               /\ StatsOf(m).max_value.val \in Seen(m)
               /\ \A x \in Seen(m) : StatsOf(m).max_value.val >= x

\* an update that evicts a sample counts one more and moves min_value and
\* max_value only as far as the new sample reaches beyond them
C19_EvictionChangesNothing ==
    IsDetect =>
        \A m \in Metrics :
            Len(history[m]) = 100 =>
                /\ StatsOf(m)'.sample_count = StatsOf(m).sample_count + 1
                /\ StatsOf(m)'.min_value =
                       IF Latest(m)' < StatsOf(m).min_value.val
                       THEN [inf |-> 0, val |-> Latest(m)']
                       ELSE StatsOf(m).min_value
                /\ StatsOf(m)'.max_value =
                       IF Latest(m)' > StatsOf(m).max_value.val
                       THEN [inf |-> 0, val |-> Latest(m)']
                       ELSE StatsOf(m).max_value

\* C19: sample_count equals the number of updates since construction or
\* the last reset, min_value and max_value equal the smallest and largest
\* sample ever seen, and evicting a sample from the 100-sample window,
\* the current minimum or maximum included, changes none of them
C19_RunningValues ==
    []C19_OverAllSamples /\ [][C19_EvictionChangesNothing]_vars

\* the first sample was the largest pressure and the smallest battery
\* energy ever fed; it has been evicted and the window holds neither
C19_Witness ==
    /\ Len(fed.pressure) > 100
    /\ pressure_stats.sample_count > Len(history.pressure)
    /\ pressure_stats.max_value.val = fed.pressure[1]
    /\ \A i \in DOMAIN history.pressure :
           history.pressure[i] < pressure_stats.max_value.val
    /\ battery_stats.min_value.val = fed.battery[1]
    /\ \A i \in DOMAIN history.battery :
           history.battery[i] > battery_stats.min_value.val

----------------------------------------------------------------------------
(* C21: unknown metric names *)

IsDirectCall == Len(direct_calls') = Len(direct_calls) + 1

\* the direct call of the step
TheCall == direct_calls'[Len(direct_calls')]

KnownName(name) == name \in {"pressure", "radiation", "battery"}

\* a direct call of update_metric or reset_statistics with a name of no
\* metric raises and changes nothing; with a known name, or with no name
\* for reset_statistics, it returns
C21_DirectCall ==
    IsDirectCall =>
        IF ~IsNone(TheCall.metric_name) /\ ~KnownName(Get(TheCall.metric_name))
        THEN /\ TheCall.raised
             /\ pressure_stats' = pressure_stats
             /\ radiation_stats' = radiation_stats
             /\ battery_stats' = battery_stats
             /\ history' = history
        ELSE ~TheCall.raised

\* the reset handler passes the empty string on to reset_statistics, whose
\* failure it answers with status 500; nothing is reset
C21_HandlerCall ==
    (IsReset /\ Get(reset_response').metric = Some("")) =>
        /\ Get(reset_response').status = 500
        /\ pressure_stats' = pressure_stats
        /\ radiation_stats' = radiation_stats
        /\ battery_stats' = battery_stats
        /\ history' = history

\* C21: update_metric and reset_statistics given an unknown metric name
\* fail with an error, and the failing call leaves the statistics and the
\* history of every metric as they were
C21_UnknownMetricFailsFast ==
    [][C21_DirectCall /\ C21_HandlerCall]_vars

\* with samples in every history, update_metric was called with the name
\* of no metric and raised, and a reset request with the empty name was
\* answered with 500
C21_Witness ==
    /\ \A m \in Metrics : history[m] # <<>> /\ StatsOf(m).sample_count > 0
    /\ direct_calls = <<[op |-> "update_metric",
                         metric_name |-> Some("temperature"),
                         raised |-> TRUE]>>
    /\ reset_response = Some([metric |-> Some(""), status |-> 500])

----------------------------------------------------------------------------
(* Decision engine: vocabulary of the properties *)

\* generate_recommendations has returned
Ranked == ~IsNone(ret_ranked)

\* the list it returned
RankedList == ret_ranked[1]

\* the priorities of the returned recommendations with one of the actions
PrioritiesOf(actions) ==
    {RankedList[i].priority : i \in {j \in 1..Len(RankedList) :
                                        RankedList[j].action \in actions}}

----------------------------------------------------------------------------
(* C22 *)

----------------------------------------------------------------------------
(* C23 *)

\* the reference formula, in whole numbers: the step a deviation earns
StepOf(deviation) ==
    IF Abs(deviation) > 20 * Milli THEN 3
    ELSE IF Abs(deviation) > 10 * Milli THEN 2
    ELSE IF Abs(deviation) > 5 * Milli THEN 1
    ELSE 0

\* 5 plus the step, times the impact factor, truncated
TimesImpact(base, impact) ==
    CASE impact = "critical" -> 2 * base
      [] impact = "high" -> (3 * base) \div 2
      [] impact = "medium" -> base
      [] impact = "low" -> base \div 2

ReferencePriority(deviation, impact, critical) ==
    LET raw == TimesImpact(5 + StepOf(deviation), impact) +
               (IF critical THEN 2 ELSE 0)
    IN  IF raw < 1 THEN 1 ELSE IF raw > 10 THEN 10 ELSE raw

\* C23: calculate_priority(deviation, impact, is_critical) equals the
\* reference formula: 5, plus 3 if |deviation| > 20, else 2 if > 10, else
\* 1 if > 5; times the impact factor (critical 2, high 1.5, medium 1, low
\* 0.5), truncated; plus 2 if is_critical; clamped to [1,10].
C23_ReferenceFormula ==
    \A i \in 1..Len(priority_calls) :
        LET call == priority_calls[i]
        IN  call.impact_level \in {"critical", "high", "medium", "low"} =>
                call.priority =
                    ReferencePriority(call.deviation_from_threshold,
                                      call.impact_level, call.is_critical)

\* a call where the truncation shows: 5 * 1.5 = 7.5 gives 7
C23_Witness ==
    /\ Len(priority_calls) = 1
    /\ priority_calls[1].deviation_from_threshold = 5000
    /\ priority_calls[1].impact_level = "high"
    /\ ~priority_calls[1].is_critical
    /\ priority_calls[1].priority = 7

----------------------------------------------------------------------------
(* C24 *)

\* the returned recommendations with one of the actions
RankedWith(actions) ==
    {RankedList[i] : i \in {j \in 1..Len(RankedList) :
                               RankedList[j].action \in actions}}

\* the one recommendation of a critical band
CriticalTen(action, category) ==
    {[priority |-> 10, category |-> category, action |-> action,
      impact |-> "critical"]}

\* C24: every recommendation from a critical band (oxygen under 20.0,
\* carbon dioxide over 500, pressure under 95, battery under 30, load
\* over 900, emergency load shedding) has impact critical and priority
\* exactly 10 whatever the deviation; oxygen at 19.0 yields
\* INCREASE_O2_GENERATION, impact critical, priority 10.
C24_CriticalBandIsTen ==
    Ranked =>
        /\ \A i \in 1..Len(RankedList) :
               RankedList[i].impact = "critical" =>
                   RankedList[i].priority = 10
        /\ settlement.o2_pct < 20000 =>
               RankedWith({"INCREASE_O2_GENERATION", "REDUCE_O2_GENERATION"})
                   = CriticalTen("INCREASE_O2_GENERATION", "life_support")
        /\ settlement.co2_ppm > 500000 =>
               RankedWith({"INCREASE_CO2_SCRUBBING"}) =
                   CriticalTen("INCREASE_CO2_SCRUBBING", "life_support")
        /\ settlement.pressure_kpa < 95000 =>
               RankedWith({"INCREASE_PRESSURE", "REDUCE_PRESSURE"}) =
                   CriticalTen("INCREASE_PRESSURE", "life_support")
        /\ settlement.battery_kwh < 30000 =>
               RankedWith({"PRIORITIZE_CHARGING", "INCREASE_CHARGING",
                           "OPTIMIZE_CHARGING", "INCREASE_LOAD"}) =
                   CriticalTen("PRIORITIZE_CHARGING", "energy_dispatch")
        /\ settlement.load_kw > 900000 =>
               RankedWith({"REDUCE_LOAD", "OPTIMIZE_LOAD"}) =
                   CriticalTen("REDUCE_LOAD", "energy_dispatch")
        /\ RankedWith({"EMERGENCY_LOAD_SHEDDING"}) \subseteq
               CriticalTen("EMERGENCY_LOAD_SHEDDING", "energy_dispatch")

\* oxygen at 19.0 % with everything else at its default: the oxygen
\* recommendation leads the list
C24_Witness ==
    /\ Ranked
    /\ settlement = [SettlementState_init EXCEPT !.o2_pct = 19000]
    /\ Len(RankedList) = 2
    /\ RankedList[1] = [priority |-> 10, category |-> "life_support",
                        action |-> "INCREASE_O2_GENERATION",
                        impact |-> "critical"]

----------------------------------------------------------------------------
(* C25 *)

\* the bands of the nine dimensions that read one quantity, in the order
\* they are tried: the side of the threshold, the threshold, and the action
\* and impact of the recommendation
Band(side, threshold, action, impact) ==
    [side |-> side, threshold |-> threshold, action |-> action,
     impact |-> impact]

Bands ==
    [o2_pct |->
         <<Band("below", 20000, "INCREASE_O2_GENERATION", "critical"),
           Band("below", 20500, "INCREASE_O2_GENERATION", "high"),
           Band("above", 21500, "REDUCE_O2_GENERATION", "medium")>>,
     co2_ppm |->
         <<Band("above", 500000, "INCREASE_CO2_SCRUBBING", "critical"),
           Band("above", 450000, "INCREASE_CO2_SCRUBBING", "high")>>,
     pressure_kpa |->
         <<Band("below", 95000, "INCREASE_PRESSURE", "critical"),
           Band("below", 98000, "INCREASE_PRESSURE", "high"),
           Band("above", 103000, "REDUCE_PRESSURE", "medium")>>,
     temp_c |->
         <<Band("below", 18000, "INCREASE_TEMPERATURE", "high"),
           Band("above", 22000, "DECREASE_TEMPERATURE", "high")>>,
     humidity_pct |->
         <<Band("below", 40000, "INCREASE_HUMIDITY", "medium"),
           Band("above", 60000, "DECREASE_HUMIDITY", "medium")>>,
     crop_health_index |->
         <<Band("below", 75000, "IMPROVE_CROP_HEALTH", "high"),
           Band("below", 85000, "OPTIMIZE_CROP_HEALTH", "medium")>>,
     battery_kwh |->
         <<Band("below", 30000, "PRIORITIZE_CHARGING", "critical"),
           Band("below", 50000, "INCREASE_CHARGING", "high"),
           Band("below", 60000, "OPTIMIZE_CHARGING", "medium"),
           Band("above", 90000, "INCREASE_LOAD", "low")>>,
     solar_kw |->
         <<Band("below", 500000, "REDUCE_NON_ESSENTIAL_LOAD", "high")>>,
     load_kw |->
         <<Band("above", 900000, "REDUCE_LOAD", "critical"),
           Band("above", 850000, "OPTIMIZE_LOAD", "high")>>]

BalanceActions ==
    {"EMERGENCY_LOAD_SHEDDING", "REDUCE_LOAD_OR_INCREASE_GENERATION",
     "CHARGE_BATTERY"}

\* a value lies in a band: strictly beyond its threshold
InBand(value, band) ==
    IF band.side = "below" THEN value < band.threshold
    ELSE value > band.threshold

\* the returned recommendations of a dimension, as <<action, impact>>, in
\* the order of the list
OfDimension(actions) ==
    LET mine == SelectSeq(RankedList, LAMBDA r : r.action \in actions)
    IN  [i \in 1..Len(mine) |-> <<mine[i].action, mine[i].impact>>]

\* what the first matching band of a dimension asks for
FirstBand(dimension) ==
    LET bands == Bands[dimension]
        matching == {i \in 1..Len(bands) :
                        InBand(settlement[dimension], bands[i])}
    IN  IF matching = {} THEN <<>>
        ELSE LET first == CHOOSE i \in matching :
                              \A j \in matching : i <= j
             IN  <<<<bands[first].action, bands[first].impact>>>>

\* C25: generate_recommendations returns at most one Recommendation for
\* each of the ten dimensions, at most 10 in all, the one of the first
\* matching band in the order below-critical, below-optimal or warning,
\* above-optimal; a value inside its optimal band, boundaries included,
\* yields none.
C25_FirstBandWins ==
    Ranked =>
        /\ Len(RankedList) <= 10
        /\ \A dimension \in DOMAIN Bands :
               OfDimension({Bands[dimension][i].action :
                                i \in 1..Len(Bands[dimension])}) =
                   FirstBand(dimension)
        /\ Len(OfDimension(BalanceActions)) <= 1
        /\ \A i \in 1..Len(RankedList) :
               RankedList[i].action \in
                   BalanceActions \cup
                   UNION {{Bands[d][k].action : k \in 1..Len(Bands[d])} :
                          d \in DOMAIN Bands}

\* nine of the ten dimensions are in their worst band and oxygen is on
\* the boundary of its optimal band: nine recommendations, none for oxygen
C25_Witness ==
    /\ Ranked
    /\ settlement.o2_pct = 20500
    /\ settlement.battery_kwh = 20000
    /\ Len(RankedList) = 9
    /\ OfDimension({"INCREASE_O2_GENERATION", "REDUCE_O2_GENERATION"}) = <<>>
    /\ OfDimension({"PRIORITIZE_CHARGING", "INCREASE_CHARGING",
                    "OPTIMIZE_CHARGING", "INCREASE_LOAD"}) =
           <<<<"PRIORITIZE_CHARGING", "critical">>>>

----------------------------------------------------------------------------
(* C26 *)

\* the fixed evaluation order of the ten dimensions, by their actions
EvaluationOrder ==
    <<{"INCREASE_O2_GENERATION", "REDUCE_O2_GENERATION"},
      {"INCREASE_CO2_SCRUBBING"},
      {"INCREASE_PRESSURE", "REDUCE_PRESSURE"},
      {"INCREASE_TEMPERATURE", "DECREASE_TEMPERATURE"},
      {"INCREASE_HUMIDITY", "DECREASE_HUMIDITY"},
      {"IMPROVE_CROP_HEALTH", "OPTIMIZE_CROP_HEALTH"},
      {"PRIORITIZE_CHARGING", "INCREASE_CHARGING", "OPTIMIZE_CHARGING",
       "INCREASE_LOAD"},
      {"REDUCE_NON_ESSENTIAL_LOAD"},
      {"REDUCE_LOAD", "OPTIMIZE_LOAD"},
      BalanceActions>>

\* the place of a recommendation's dimension in that order
PlaceOf(r) == CHOOSE k \in 1..Len(EvaluationOrder) :
                  r.action \in EvaluationOrder[k]

\* C26: the list generate_recommendations returns is in non-increasing
\* priority order, and recommendations of equal priority appear in the
\* fixed evaluation order O2, CO2, pressure, temperature, humidity, crop
\* health, battery, solar, load, energy balance.
C26_RankedStable ==
    Ranked =>
        \A i, j \in 1..Len(RankedList) :
            i < j =>
                /\ RankedList[i].priority >= RankedList[j].priority
                /\ RankedList[i].priority = RankedList[j].priority =>
                       PlaceOf(RankedList[i]) < PlaceOf(RankedList[j])

\* a load of 1900 kW with the defaults: the battery recommendation, found
\* first, is ranked last, and the two of priority 10 keep their order
C26_Witness ==
    /\ Ranked
    /\ settlement = [SettlementState_init EXCEPT !.load_kw = 1900000]
    /\ [i \in 1..Len(RankedList) |->
            <<RankedList[i].action, RankedList[i].priority>>] =
           <<<<"REDUCE_LOAD", 10>>,
             <<"REDUCE_LOAD_OR_INCREASE_GENERATION", 10>>,
             <<"INCREASE_LOAD", 4>>>>

----------------------------------------------------------------------------
(* C27 *)

\* net_power = solar_kw - load_kw, in thousandths of a kW
NetPower == settlement.solar_kw - settlement.load_kw

\* battery_pct = battery_kwh / 500 * 100 is under a whole percentage
BatteryPctUnder(pct) == settlement.battery_kwh * 100 < pct * 500 * Milli

\* the energy-balance recommendations returned, by their actions
BalanceReturned == OfDimension(BalanceActions)

\* the energy balance yields exactly this action
BalanceIs(action) ==
    Len(BalanceReturned) = 1 /\ BalanceReturned[1][1] = action

\* C27: the energy-balance dimension yields EMERGENCY_LOAD_SHEDDING iff
\* net_power < 0 and battery_pct < 20, REDUCE_LOAD_OR_INCREASE_GENERATION
\* iff net_power < 0 and battery_pct >= 20, CHARGE_BATTERY iff
\* net_power > 0 and battery_pct < 90, and no recommendation otherwise.
C27_EnergyBalance ==
    Ranked =>
        /\ BalanceIs("EMERGENCY_LOAD_SHEDDING") <=>
               (NetPower < 0 /\ BatteryPctUnder(20))
        /\ BalanceIs("REDUCE_LOAD_OR_INCREASE_GENERATION") <=>
               (NetPower < 0 /\ ~BatteryPctUnder(20))
        /\ BalanceIs("CHARGE_BATTERY") <=>
               (NetPower > 0 /\ BatteryPctUnder(90))
        /\ BalanceReturned = <<>> <=>
               (NetPower = 0 \/ (NetPower > 0 /\ ~BatteryPctUnder(90)))

\* a deficit with the battery at exactly 20 %: the deficit warning, not the
\* emergency
C27_Witness ==
    /\ Ranked
    /\ NetPower < 0
    /\ settlement.battery_kwh = 100000
    /\ BalanceReturned =
           <<<<"REDUCE_LOAD_OR_INCREASE_GENERATION", "high">>>>

----------------------------------------------------------------------------
(* The stores and the audit log *)

\* an item is in a store
InStore(item, store) == \E i \in 1..Len(store) : store[i] = item

\* C28: as long as no statement of a safety cycle has raised, every Alert
\* the latest check_safety call emitted is in the Alert Store and every
\* Recommendation it emitted is in the Recommendation Store, whether the
\* periodic cycle or POST /safety/check made the call, and the Alert of
\* every hazard in the active set is in the Alert Store.
C28_EmittedAreStored ==
    cycle_errors.safety = 0 =>
        /\ \A i \in 1..Len(ret_alerts) : InStore(ret_alerts[i], alerts_db)
        /\ \A i \in 1..Len(ret_recommendations) :
               InStore(ret_recommendations[i], recommendations_db)
        /\ \A hazard \in DOMAIN active_alerts :
               InStore(active_alerts[hazard], alerts_db)

\* C29: the Audit Sink holds at least one record for each Alert in the Alert
\* Store and each Recommendation in the Recommendation Store, so that no
\* read of a store observes an item whose audit record is not yet written.
\* In this specification only the two periodic cycles write to the stores.
C29_AuditedBeforeReturn ==
    /\ Len(audit_log) >= Len(alerts_db) + Len(recommendations_db)
    /\ Len(audit_log_db) >= Len(alerts_db) + Len(recommendations_db)

----------------------------------------------------------------------------
(* The two periodic tasks *)

\* a step in which a statement of a cycle's body raised
SafetyCycleFailed == cycle_errors'.safety > cycle_errors.safety
AnomalyCycleFailed == cycle_errors'.anomaly > cycle_errors.anomaly

\* the ids of the items in a store
IdsIn(store) == {store[i].id : i \in 1..Len(store)}

\* C30: a cycle in which a statement raises leaves its own task and the
\* other one in their loops, ready for their next cycles, and changes
\* nothing of the other component: a failing safety cycle leaves the
\* detector, its latest result and its count of cycles as they were, and a
\* failing anomaly cycle does the same for the safety layer.
C30_FailureIsContained ==
    [][/\ SafetyCycleFailed =>
              /\ safety_task' = "running"
              /\ anomaly_task' = "running"
              /\ UNCHANGED <<detectorVars, ret_anomalies, detect_calls>>
       /\ AnomalyCycleFailed =>
              /\ anomaly_task' = "running"
              /\ safety_task' = "running"
              /\ UNCHANGED <<layerVars, ret_alerts, ret_recommendations,
                             calls>>]_vars

\* a safety cycle stored its alert and raised before it stored the
\* recommendation emitted with it; a later safety cycle stored both of
\* its own, and a later anomaly cycle stored an alert of its own
C30_Witness ==
    /\ cycle_errors = [safety |-> 1, anomaly |-> 0]
    /\ safety_task = "running"
    /\ anomaly_task = "running"
    /\ \E lost, kept \in 1..Len(emitted_recs) :
           /\ lost < kept
           /\ emitted_recs[lost] \notin IdsIn(recommendations_db)
           /\ emitted_recs[lost] - 1 \in IdsIn(alerts_db)
           /\ emitted_recs[kept] \in IdsIn(recommendations_db)
           /\ emitted_recs[kept] - 1 \in IdsIn(alerts_db)
           /\ \E i \in 1..Len(alerts_db) :
                  /\ alerts_db[i].category = "anomaly_pressure"
                  /\ alerts_db[i].id > emitted_recs[lost]

----------------------------------------------------------------------------
(* Evaluations of one component never overlap *)

\* C31: at no time are two executions of check_safety, or two of
\* detect_anomalies, in progress on the shared instance: each one returns
\* before the next one is called, whether the periodic task or the handler
\* of POST /safety/check or POST /anomaly/detect makes the call.
C31_NoOverlap ==
    /\ Cardinality(evaluating.safety) <= 1
    /\ Cardinality(evaluating.anomaly) <= 1

\* the handler of a POST /safety/check has made its call and responded, and
\* the periodic task is inside check_safety on the same instance
C31_Witness ==
    \E h \in 1..Len(coroutines), t \in 1..Len(coroutines) :
        /\ coroutines[h].coro = "check_safety"
        /\ coroutines[h].at = "done"
        /\ coroutines[t].coro = "periodic_safety_check"
        /\ evaluating.safety = {t}
        /\ calls = 1

----------------------------------------------------------------------------
(* The three consumers share no mutable state *)

\* C32: check_safety changes only the safety layer's state (the two
\* histories, the active set, the pending approvals), detect_anomalies only
\* the detector's statistics and histories, generate_recommendations no
\* component state at all, and none of them changes the state it was given.
C32_ConsumersShareNothing ==
    [][/\ calls' # calls =>
              UNCHANGED <<detectorVars, settlement, simulator>>
       /\ detect_calls' # detect_calls =>
              UNCHANGED <<layerVars, settlement, simulator>>
       /\ decision_calls' # decision_calls =>
              UNCHANGED <<layerVars, detectorVars, settlement,
                          simulator>>]_vars

\* each consumer has run, the first two with an effect on their own state
C32_Witness ==
    /\ calls > 0 /\ active_alerts # SafetyLayer_init.active_alerts
    /\ detect_calls > 0 /\ history # AnomalyDetector_init.history
    /\ decision_calls > 0 /\ ret_ranked \notin {None, Some(<<>>)}

----------------------------------------------------------------------------
(* Scenarios *)

\* the scenario tasks that have run their finally clause
Ended == {k \in 1..Len(scenario_tasks) : ~IsNone(scenario_tasks[k].left)}

\* C33: when a scenario ends, by cancellation or by running out, the
\* sub-state of the simulator it wrote (radiation for a storm, atmosphere
\* for a leak) is set back to the values it had when that scenario was
\* started, whatever the order of starts, stops and task steps.
C33_RestoredToSnapshot ==
    \A k \in Ended :
        scenario_tasks[k].left = Some(scenario_tasks[k].snapshot)

\* the scenario tasks that go on writing: created or in their loop, and
\* not asked to cancel
Writing ==
    {k \in 1..Len(scenario_tasks) :
         /\ scenario_tasks[k].at # "done"
         /\ ~scenario_tasks[k].must_cancel}

\* C34: at most one scenario is active: while active_scenario is set a
\* start is refused with an error and leaves the active scenario, the
\* snapshot and the running task as they are, and never are two scenario
\* tasks writing the simulator at the same time.
C34_AtMostOneScenario ==
    /\ [][~IsNone(scenario_engine.active_scenario) =>
              /\ Len(scenario_tasks') = Len(scenario_tasks)
              /\ scenario_engine'._scenario_task =
                     scenario_engine._scenario_task
              /\ scenario_engine'.active_scenario \in
                     {scenario_engine.active_scenario, None}
              /\ (/\ scenario_response' # scenario_response
                  /\ Get(scenario_response').status = "400") =>
                     UNCHANGED <<scenario_engine, scenario_tasks,
                                 simulator>>]_vars
    /\ [](Cardinality(Writing) <= 1)

\* a step of the handler of POST /scenarios/stop
StopStep ==
    ScenarioRequests("STOP_SCENARIO")' > ScenarioRequests("STOP_SCENARIO")

\* C35: every scenario that was started ends, by running out or by a stop,
\* and the engine then shows no active scenario, so that a start is
\* accepted; a stop with no scenario running answers no_scenario_running
\* and changes nothing.
C35_ScenariosEnd ==
    /\ \A k \in 1..MaxScenarioStarts :
           (k <= Len(scenario_tasks)) ~>
               (k <= Len(scenario_tasks) /\ scenario_tasks[k].at = "done")
    /\ (~IsNone(scenario_engine.active_scenario)) ~>
           IsNone(scenario_engine.active_scenario)
    /\ [][/\ (IsNone(scenario_engine.active_scenario) /\
              scenario_response' # scenario_response) =>
                 Get(scenario_response').status # "400"
          /\ (StopStep /\ IsNone(scenario_engine.active_scenario) /\
              \A k \in 1..Len(scenario_tasks) :
                  scenario_tasks[k].at = "done") =>
                 /\ Get(scenario_response').status = "no_scenario_running"
                 /\ UNCHANGED <<scenario_engine, scenario_tasks,
                                simulator>>]_vars

\* a storm ran out and a leak was stopped, both have ended and the engine
\* shows no scenario; a stop with nothing running was answered
C35_Witness ==
    /\ \E k \in Ended, j \in Ended :
           /\ scenario_tasks[k].scenario = "radiation_storm"
           /\ ~scenario_tasks[k].must_cancel
           /\ scenario_tasks[j].scenario = "pressure_leak"
           /\ scenario_tasks[j].must_cancel
    /\ \A k \in 1..Len(scenario_tasks) : scenario_tasks[k].at = "done"
    /\ IsNone(scenario_engine.active_scenario)
    /\ scenario_response =
           Some([status |-> "no_scenario_running", scenario |-> "none"])

----------------------------------------------------------------------------
(* Approvals outlive their hazards *)

\* the recommendation ids emitted for a hazard type
RecsOf(hazard) ==
    {emitted_recs[i] : i \in {j \in 1..Len(emitted_alerts) :
                                  emitted_alerts[j] = hazard}}

\* C36: no pending-approval entry is ever removed: over check_safety and
\* approve calls the set of ids only grows, a call in which a hazard leaves
\* the active set leaves every entry as it was, and approving an entry
\* that is still unapproved succeeds whether or not its hazard is active.
C36_ApprovalsOutliveHazards ==
    [][/\ DOMAIN pending_approvals \subseteq DOMAIN pending_approvals'
       /\ ~(DOMAIN active_alerts \subseteq DOMAIN active_alerts') =>
              \A id \in DOMAIN pending_approvals :
                  pending_approvals'[id] = pending_approvals[id]
       /\ (/\ approve_runs' # approve_runs
           /\ Get(approve_response').called
           /\ Get(approve_response').id \in DOMAIN pending_approvals
           /\ ~pending_approvals[Get(approve_response').id].approved) =>
              /\ Get(approve_response').ok
              /\ pending_approvals'[Get(approve_response').id].approved]_vars

\* a spike was raised and has cleared, and its entry was approved at a time
\* after the call that cleared it
C36_Witness ==
    /\ ALERT_RADIATION_SPIKE \notin DOMAIN active_alerts
    /\ \E id \in RecsOf(ALERT_RADIATION_SPIKE) :
           /\ pending_approvals[id].approved
           /\ Get(pending_approvals[id].approved_at) >
                  pressure_history[Len(pressure_history)].ts

----------------------------------------------------------------------------
(* Detection does not depend on the approvals *)

\* the approvals with every decision taken back
Unapproved(approvals) ==
    [id \in DOMAIN approvals |->
         [approvals[id] EXCEPT !.approved = FALSE, !.approved_by = None,
                               !.approved_at = None]]

\* two results of check_safety that differ in nothing but the decisions
\* recorded in the approvals
SameButApprovals(a, b) ==
    /\ a.alerts = b.alerts
    /\ a.recommendations = b.recommendations
    /\ a.self.active_alerts = b.self.active_alerts
    /\ a.self.pressure_history = b.self.pressure_history
    /\ a.self.radiation_history = b.self.radiation_history
    /\ Unapproved(a.self.pending_approvals) =
           Unapproved(b.self.pending_approvals)

\* C37: what check_safety detects does not depend on the approvals: from
\* two states that differ only in which entries are approved, by whom and
\* when, the same reading gives the same alerts and recommendations, the
\* same active set and histories, and again states that differ only so;
\* and an approve call changes nothing but the entry it names.  Two runs
\* fed the same readings therefore stay alike whatever was approved.
C37_DetectionIgnoresApprovals ==
    /\ [](\A s \in HazardInputs \cup
                   {<<NominalPressure, r>> : r \in ClearingInputs} :
              LET state == [pressure_kpa |-> s[1],
                            radiation_msv_hr |-> s[2]]
              IN  SameButApprovals(
                      check_safety(Self, state, now),
                      check_safety(
                          [Self EXCEPT !.pending_approvals = Unapproved(@)],
                          state, now)))
    /\ [][approve_runs' # approve_runs =>
              /\ UNCHANGED <<pressure_history, radiation_history,
                             active_alerts>>
              /\ DOMAIN pending_approvals' = DOMAIN pending_approvals
              /\ \A id \in DOMAIN pending_approvals :
                     id # Get(approve_response').id =>
                         pending_approvals'[id] = pending_approvals[id]]_vars

\* an entry is approved, and the next reading raises a hazard
C37_Witness ==
    /\ \E id \in DOMAIN pending_approvals : pending_approvals[id].approved
    /\ \E r \in ClearingInputs :
           check_safety(Self, [pressure_kpa |-> NominalPressure,
                               radiation_msv_hr |-> r], now).alerts # <<>>

----------------------------------------------------------------------------
(* The spike test sees the current reading in its baseline *)

\* the hazard types of the alerts the step's check_safety call emitted
EmittedNow ==
    {emitted_alerts'[i] :
         i \in (Len(emitted_alerts) + 1)..Len(emitted_alerts')}

\* from the readings before a call and the reading of the call:
\* 4 * current > (sum of the previous 4 readings) + 0.5
SpikeByPrevious(previous, current) ==
    /\ Len(previous) >= 4
    /\ 4 * current > SumSeq(LastN(previous, 4)) + 5 * RADIATION_SPIKE_THRESHOLD

----------------------------------------------------------------------------
(* C39.  std_dev is the population standard deviation of a window that     *)
(* holds the sample, so |z| <= sqrt(n - 1) for a window of n samples: no   *)
(* CRITICAL anomaly alert (|z| >= 3.5) is emitted for a metric while its   *)
(* window holds fewer than 14 samples, whatever the samples, and at        *)
(* sample_count 10 the largest |z| is 3.                                   *)

\* z^2 <= k for the latest sample against its window: n * Dev^2 <= k * Spread
ZSqAtMost(m, k) ==
    LET spread == Spread(m)
        dev == Dev(m)
        g == GCD(dev * dev, spread)
    IN  spread > 0 =>
            WindowLen(m) * ((dev * dev) \div g) <= k * (spread \div g)

\* the z-score the detector computes for the latest sample of a metric
ComputedZ(m) == ZScore(StatsOf(m), Latest(m))

C39_ZBoundedByWindow ==
    \A m \in Metrics :
        Len(fed[m]) >= 1 =>
            /\ ZSqAtMost(m, WindowLen(m) - 1)
            /\ FracLeq(ComputedZ(m).sq, IntFrac(WindowLen(m) - 1))
            /\ \A a \in AlertsFor(m) :
                   /\ FracLeq(a.z_score.sq, IntFrac(WindowLen(m) - 1))
                   /\ a.severity = AlertSeverity.CRITICAL =>
                          /\ WindowLen(m) >= 14
                          /\ StatsOf(m).sample_count >= 14
            /\ StatsOf(m).sample_count = 10 =>
                   /\ WindowLen(m) = 10
                   /\ FracLeq(ComputedZ(m).sq, IntFrac(9))
                   /\ ~ZAtLeast(m, 301, 100)

\* the fourteenth sample of a metric, after thirteen equal ones, is at
\* |z| = sqrt(13), the bound of its window, and raised a CRITICAL alert
C39_Witness ==
    \E m \in Metrics :
        /\ StatsOf(m).sample_count = 14
        /\ WindowLen(m) = 14
        /\ ComputedZ(m).sq = IntFrac(13)
        /\ \E a \in AlertsFor(m) :
               /\ a.severity = AlertSeverity.CRITICAL
               /\ a.z_score.sq = IntFrac(13)

====
